---- MODULE Spec2Model ----
(***************************************************************************)
(* Verification model of the pw-capture client crate: the stream actor's   *)
(* buffer hand-off (client/src/stream.rs) and the session actor with its   *)
(* command bridge (client/src/client.rs).                                  *)
(*                                                                         *)
(* Three threads appear in the code and in the model:                      *)
(*   - the caller (graphics) thread, which posts a message and blocks on   *)
(*     the one-shot crossbeam result channel;                              *)
(*   - the PipeWire main-loop thread, which runs the message handlers and  *)
(*     the stream listener's state_changed/add_buffer/remove_buffer        *)
(*     callbacks;                                                          *)
(*   - the real-time data thread (StreamFlags::RT_PROCESS), which runs the *)
(*     process callback.                                                   *)
(*                                                                         *)
(* Spec is the buffer hand-off of one stream; SpecSession is the session   *)
(* with its streams' lifecycle and the command bridge; SpecNegotiation is  *)
(* the format negotiation of one stream (on_param_changed, on_add_buffer). *)
(* SpecPool is the transport's add_buffer/remove_buffer callbacks over a    *)
(* pool of buffers; SpecConstruct is Client::new with its worker thread;   *)
(* SpecSessionFair is SpecSession under the main loop's scheduling;        *)
(* SpecFormat is the Format <-> u32 conversion (client/src/format.rs).     *)
(* SpecMeta is the process callback's stamping of header and cursor       *)
(* metadata; SpecBorrow is the RefCell borrows of both actors along their  *)
(* call paths; SpecTextures is the GL backend's texture pool               *)
(* (gl/src/interface/implementation.rs); SpecVkFormat is the Vulkan format *)
(* table (vulkan/src/utils/format_info.rs); SpecAppName is get_app_name    *)
(* (client/src/utils.rs).                                                  *)
(***************************************************************************)
EXTENDS Integers, Sequences, FiniteSets, TLC

\* stream.rs:22  const MAX_PROCESS_BUFFERS: usize = 4;
MAX_PROCESS_BUFFERS == 4

\* Number of buffer slots the transport may allocate (the negotiated pool is
\* 1..max_buffers; the backends ask for up to 32).  A BufferHandle is the
\* address of a slot, so a handle outlives the buffer it was dequeued for.
NumBuffers == 5

Slots == 1..NumBuffers

VARIABLES
    state,      \* pw::stream::StreamState reported by stream.state()
    driving,    \* stream.is_driving()
    n_buffers,  \* size of the transport's buffer pool: slots 1..n_buffers exist
    user_data,  \* pw_buffer.user_data of each slot: "null", "set" or "freed"
    loc,        \* owner of each slot: "none" (no buffer), "pool" (transport), "app"
    chan,       \* the bounded crossbeam channel buffer_sender/buffer_receiver
    loop_pc,    \* main-loop thread: "idle", or "send" while blocked in Sender::send
    cpc,        \* caller thread position in the capture function
    cbuf,       \* BufferHandle the caller holds (0: none)
    qret,       \* what the caller's last queue_buffer_process returned
    \* ---- the session actor (client.rs) and the command bridge
    loop_state,     \* "running" until mainloop.run() has returned, then "exited"
    quit,           \* mainloop.quit() has been called
    panicked,       \* the loop thread hit the expect() of on_terminate, or ran freed code
    cq,             \* queue of the pw::channel of ClientMessage
    cbatch,         \* client messages taken by the attached callback, not yet handled
    stream_next_id, \* ClientImplInner::stream_next_id
    stream_map,     \* keys of ClientImplInner::stream_map
    on_terminate,   \* per stream id: StreamImplInner::on_terminate is Some
    sstate,         \* per stream id: "none" (no such stream), "Connecting", "Unconnected"
    sq,             \* per stream id: queue of the pw::channel of StreamMessage
    sbatch,         \* stream messages taken by the attached callback, not yet handled
    handles,        \* ids of the Stream handles the application holds
    tpc,            \* per calling thread: "idle", "wait" while blocked in recv(), "join"/"joined" in Drop for Client
    treq,           \* per calling thread: its last request, and what had been torn down when it was posted
    tres,           \* per calling thread: what its last request returned
    term_calls,     \* per stream id: how often its on_terminate callback has run
    term_req,       \* stream ids for which a terminate has been requested
    c_terms,        \* number of ClientMessage::terminate posted
    \* ---- format negotiation of one stream (on_param_changed, on_add_buffer)
    enum_formats,   \* StreamImplInner::enum_formats: the (formats, modifiers) alternatives offered
    max_buffers,    \* StreamImplInner::max_buffers
    published,      \* the parameter list last handed to connect()/update_params()
    fixate_calls,   \* arguments of the fixate_format calls made by the last listener call
    last_event,     \* the last negotiation event: proposal and backend reply
    listener_panic, \* a listener callback has panicked
    \* ---- the transport's buffers of one stream (on_add_buffer, on_remove_buffer)
    n_datas,        \* spa_buffer.n_datas: data blocks of each transport buffer
    pw_buffers,     \* the pool's pw_buffer structs: user_data, the data blocks, what add_buffer returned
    backend,        \* user handles the backend has handed out and not been given back
    pool_event,     \* the last buffer event and what it called
    pool_panic,     \* the add_buffer listener has panicked
    \* ---- construction of sessions (Client::new and the start of pw_thread)
    new_pc,         \* per construction: position of the thread calling Client::new
    pw_thread,      \* per construction: position of the spawned loop thread, what it has set up
    done,           \* per construction: the bounded(1) channel done_sender/done_receiver
    \* ---- conversions of Format (format.rs)
    fv_value,       \* a u32 to be converted
    fv_format,      \* Format::from(fv_value), once converted
    fv_u32,         \* u32::from(that Format), once converted
    \* ---- the metadata the process callback stamps on buffers (on_process_buffer)
    seq,            \* StreamData::seq
    cursor_id,      \* StreamData::cursor_id
    frames,         \* per buffer handed back to the transport, in order: what was written to its metadata
    last_process,   \* how the last call of the process listener ended
    \* ---- the RefCells of the loop thread (client.rs, stream.rs)
    call_stack,     \* the loop thread's active calls, innermost last: function, position, guards held
    borrow_state,   \* per RefCell: number of shared borrows and whether it is mutably borrowed
    borrow_panic,   \* a borrow()/borrow_mut() has panicked (already borrowed)
    stream_life,    \* the one stream: "none", "registered" (listener registered), "live" (in stream_map), "removed"
    on_terminate_slot, \* that stream's StreamImplInner::on_terminate is Some
    \* ---- the export textures of one GL capture (gl/src/interface/implementation.rs)
    free_textures,  \* LayerCapture::free_textures, a VecDeque of textures
    mapped_textures, \* keys of LayerCapture::mapped_textures
    gl_event,       \* the last add-buffer or remove-buffer callback and its result
    \* ---- look-ups in the Vulkan format table (vulkan/src/utils/format_info.rs)
    vk_query,       \* the function called and its arguments
    vk_result,      \* what it returned, once it has
    \* ---- get_app_name (client/src/utils.rs)
    proc_exe,       \* what read_link("/proc/self/exe") gives: None or the path's components
    proc_comm,      \* what read_to_string("/proc/self/comm") gives: None or the contents
    app_pc,         \* position in get_app_name: "start", "program", "done"
    program_name,   \* what get_program_name returned
    app_name        \* what get_app_name returned

bvars == <<state, driving, n_buffers, user_data, loc, chan, loop_pc, cpc, cbuf, qret>>

svars == <<loop_state, quit, panicked, cq, cbatch, stream_next_id, stream_map, on_terminate,
           sstate, sq, sbatch, handles, tpc, treq, tres, term_calls, term_req, c_terms>>

nvars == <<enum_formats, max_buffers, published, fixate_calls, last_event, listener_panic>>

pvars == <<n_datas, pw_buffers, backend, pool_event, pool_panic>>

\* The variables of the specifications that follow the first three.
cvars == <<new_pc, pw_thread, done>>

fvars == <<fv_value, fv_format, fv_u32>>

mvars == <<seq, cursor_id, frames, last_process>>

wvars == <<call_stack, borrow_state, borrow_panic, stream_life, on_terminate_slot>>

tvars == <<free_textures, mapped_textures, gl_event>>

kvars == <<vk_query, vk_result>>

avars == <<proc_exe, proc_comm, app_pc, program_name, app_name>>

\* The variables of the specifications that follow SpecFormat.
yvars == <<mvars, wvars, tvars, kvars, avars>>

xvars == <<pvars, cvars, fvars, yvars>>

vars == <<bvars, svars, nvars, xvars>>

\* Streams a session may create and threads that may call into it.
MaxStreams == 2
NumCallers == 2
\* Client::proxy().terminate() is fire-and-forget; the number posted is capped.
MaxClientTerminates == 1

StreamIds == 0..(MaxStreams - 1)
Callers == 1..NumCallers

NoReq == [kind |-> "none", sid |-> -1, after |-> "live"]
NoBatch == [sid |-> -1, msgs |-> <<>>]

\* State after Client::new: the loop thread runs, no stream exists.
SessionInit ==
    /\ loop_state = "running"
    /\ quit = FALSE
    /\ panicked = FALSE
    /\ cq = <<>>
    /\ cbatch = <<>>
    /\ stream_next_id = 0
    /\ stream_map = {}
    /\ on_terminate = [i \in StreamIds |-> FALSE]
    /\ sstate = [i \in StreamIds |-> "none"]
    /\ sq = [i \in StreamIds |-> <<>>]
    /\ sbatch = NoBatch
    /\ handles = {}
    /\ tpc = [c \in Callers |-> "idle"]
    /\ treq = [c \in Callers |-> NoReq]
    /\ tres = [c \in Callers |-> "none"]
    /\ term_calls = [i \in StreamIds |-> 0]
    /\ term_req = {}
    /\ c_terms = 0

\* State after StreamImpl::new: listener registered, connect() issued.
StreamInit ==
    /\ state = "Connecting"
    /\ driving = FALSE
    /\ n_buffers = 0
    /\ user_data = [b \in Slots |-> "null"]
    /\ loc = [b \in Slots |-> "none"]
    /\ chan = <<>>
    /\ loop_pc = "idle"
    /\ cpc = "idle"
    /\ cbuf = 0
    /\ qret = "none"

\* gl/src/lib.rs:28  const MAX_BUFFERS: u32 = 32;  (StreamInfo::max_buffers)
MAX_BUFFERS == 32

\* Formats and DRM modifiers that occur in offers and proposals, and the
\* largest plane count a backend reports.
Formats == {"A", "B"}
Modifiers == {3, 7}
MaxPlanes == 2

\* build_format: one EnumFormat parameter.  The format is an enum choice
\* when several formats are given, a plain id otherwise; the modifier
\* property exists only for a non-empty modifier list, as a single mandatory
\* value when fixate is set and as a mandatory don't-fixate enum choice
\* otherwise.  Media type, size and framerate are the same in every one.
build_format(formats, modifiers, fixate) ==
    [obj |-> "Format",
     format |-> IF Len(formats) > 1
                THEN [kind |-> "Enum", default |-> formats[1], alternatives |-> formats]
                ELSE [kind |-> "Id", default |-> formats[1], alternatives |-> <<>>],
     modifier |-> IF Len(modifiers) = 0
                  THEN [kind |-> "absent", flags |-> {}, default |-> 0, alternatives |-> <<>>]
                  ELSE IF fixate
                  THEN [kind |-> "Long", flags |-> {"MANDATORY"},
                        default |-> modifiers[1], alternatives |-> <<>>]
                  ELSE [kind |-> "Enum", flags |-> {"MANDATORY", "DONT_FIXATE"},
                        default |-> modifiers[1], alternatives |-> modifiers]]

\* The format parameters of an offer, last alternative first.
enum_params_reversed(offer) ==
    [i \in 1..Len(offer) |->
        build_format(offer[Len(offer) + 1 - i].formats, offer[Len(offer) + 1 - i].modifiers, FALSE)]

\* The format parameters of an offer, one per alternative, in the offer's order.
enum_params(offer) ==
    [i \in 1..Len(offer) |-> build_format(offer[i].formats, offer[i].modifiers, FALSE)]

\* stream.rs:23-25  the largest cursor bitmap the cursor block has room for
MAX_CURSOR_WIDTH == 64
MAX_CURSOR_BPP == 4
MAX_CURSOR_BITMAP_SIZE == MAX_CURSOR_WIDTH * MAX_CURSOR_WIDTH * MAX_CURSOR_BPP

\* mem::size_of of the metadata structs of libspa (five, seven and five
\* 32-bit fields, the header with three 64-bit ones).
size_of_spa_meta_header == 32
size_of_spa_meta_cursor == 28
size_of_spa_meta_bitmap == 20

\* build_stream_params: the size declared for the cursor metadata block.
cursor_meta_size == size_of_spa_meta_cursor + size_of_spa_meta_bitmap + MAX_CURSOR_BITMAP_SIZE

\* A build_stream_params that passes the plane count through unchanged.
build_stream_params_raw(max, blocks, is_dma_buf) ==
    << [obj |-> "ParamBuffers", default |-> 8, min |-> 1, max |-> max, blocks |-> blocks,
        dataType |-> IF is_dma_buf THEN "DmaBuf" ELSE "MemFd"],
       [obj |-> "ParamMeta", type |-> "Header", size |-> size_of_spa_meta_header],
       [obj |-> "ParamMeta", type |-> "Cursor", size |-> cursor_meta_size] >>

\* build_stream_params: the buffer parameter (a buffer count range with
\* default 8, minimum 1 and the given maximum; blocks.max(1) data blocks, of
\* DmaBuf or MemFd type) and the header and cursor meta parameters.
build_stream_params(max, blocks, is_dma_buf) ==
    << [obj |-> "ParamBuffers", default |-> 8, min |-> 1, max |-> max,
        blocks |-> IF blocks > 1 THEN blocks ELSE 1,
        dataType |-> IF is_dma_buf THEN "DmaBuf" ELSE "MemFd"],
       [obj |-> "ParamMeta", type |-> "Header", size |-> size_of_spa_meta_header],
       [obj |-> "ParamMeta", type |-> "Cursor", size |-> cursor_meta_size] >>

NoEvent == [kind |-> "none"]

\* Values of StreamInfo::max_buffers a stream may be created with: the
\* smallest pool, the default buffer count, and what the GL backend passes.
StreamMaxBuffers == {1, 8, MAX_BUFFERS}

\* The offer every stream of Spec and SpecSession is created with.
DefaultOffer == << [formats |-> <<"A">>, modifiers |-> <<>>] >>

\* State after StreamImpl::new for the offer and max_buffers of the
\* StreamInfo: connect() was given the offer's format parameters.
StreamParamsInit(offer, max) ==
    /\ enum_formats = offer
    /\ max_buffers = max
    /\ published = enum_params(offer)
    /\ fixate_calls = <<>>
    /\ last_event = NoEvent
    /\ listener_panic = FALSE

\* The stream's transport buffers before any is allocated; every buffer will
\* have blocks data blocks.
PoolInit(blocks) ==
    /\ n_datas = blocks
    /\ pw_buffers = <<>>
    /\ backend = {}
    /\ pool_event = NoEvent
    /\ pool_panic = FALSE

\* Sessions that may be constructed side by side (one per backend instance).
NumClients == 2
Clients == 1..NumClients

\* pw_thread on entry: nothing set up yet.
NotSpawned == [pc |-> "none", mainloop |-> FALSE, context |-> FALSE, core |-> FALSE,
               attached |-> FALSE, err |-> "none"]

\* No Client::new has been called.
ConstructInit ==
    /\ new_pc = [k \in Clients |-> "start"]
    /\ pw_thread = [k \in Clients |-> NotSpawned]
    /\ done = [k \in Clients |-> [msgs |-> 0, sender |-> TRUE]]

\* The u32 n is about to be converted.
FormatInit(n) ==
    /\ fv_value = n
    /\ fv_format = <<>>
    /\ fv_u32 = <<>>

\* StreamImpl::new: the listener's StreamData, before any process call.
MetaInit ==
    /\ seq = 0
    /\ cursor_id = 1
    /\ frames = <<>>
    /\ last_process = "none"

\* The RefCells of pw_thread's callback (client), of the session
\* (ClientImplInner) and of a stream (StreamImplInner).
Cells == {"client", "session", "stream"}

\* The loop thread between two callbacks, before any stream is created.
BorrowInit ==
    /\ call_stack = <<>>
    /\ borrow_state = [c \in Cells |-> [shared |-> 0, mut |-> FALSE]]
    /\ borrow_panic = FALSE
    /\ stream_life = "none"
    /\ on_terminate_slot = FALSE

\* Export textures of one capture (the backend creates MAX_BUFFERS of them).
NumTextures == 4
Textures == 1..NumTextures

\* create_capture: every texture is free, none is mapped.
TexturesInit ==
    /\ free_textures = [i \in 1..NumTextures |-> i]
    /\ mapped_textures = {}
    /\ gl_event = NoEvent

\* A call of one of the look-up functions that has not returned yet.  A
\* vk::Format is the sequence of the parts of its name between underscores,
\* which is what its Debug output consists of.
VkQuery(fn, vk_format, format, transfer) ==
    [fn |-> fn, vk_format |-> vk_format, format |-> format, transfer |-> transfer]

VkFormatInit(q) ==
    /\ vk_query = q
    /\ vk_result = <<>>

\* The specifications from SpecMeta to SpecTextures, as constructed.
Y3Init == MetaInit /\ BorrowInit /\ TexturesInit

\* get_app_name has not been called; the process has the executable link
\* and the command name given.  A String is the sequence of its pieces, a
\* command name is made of single characters.
AppNameInit(exe, comm) ==
    /\ proc_exe = exe
    /\ proc_comm = comm
    /\ app_pc = "start"
    /\ program_name = <<>>
    /\ app_name = <<>>

\* The specifications from SpecMeta to SpecVkFormat, as constructed.
Y4Init ==
    Y3Init /\ VkFormatInit(VkQuery("vk_format_get_transfer", <<"UNDEFINED">>, "UNKNOWN", "UNKNOWN"))

\* The specifications after SpecFormat, as constructed.
YInit == Y4Init /\ AppNameInit(<<>>, <<>>)

\* What Spec, SpecSession and SpecNegotiation leave as constructed.
RestInit == PoolInit(1) /\ ConstructInit /\ FormatInit(0) /\ YInit

Init == StreamInit /\ SessionInit /\ StreamParamsInit(DefaultOffer, MAX_BUFFERS) /\ RestInit

\* pw_stream_queue_buffer: the transport takes back a slot the application
\* holds; a slot outside the pool or one it already holds is refused.
queue_raw_buffer(l, b) ==
    IF b <= n_buffers /\ l[b] = "app" THEN [l EXCEPT ![b] = "pool"] ELSE l

\* A send that enqueues the handle twice.
send_twice(c, b) == Append(Append(c, b), b)

\* A send that puts the handle in front of the queued ones.
send_front(c, b) == <<b>> \o c

\* Sender::send on the channel when there is room.
send(c, b) == Append(c, b)

\* ---------------------------------------------------------------- transport events

\* state_changed listener (main-loop thread): on Paused the stream is flushed
\* (buffers move between queues of the transport) and the channel is drained.
\* The transport starts a stream only once it has buffers.
state_changed(new) ==
    /\ UNCHANGED <<svars, nvars, xvars>>
    /\ loop_pc = "idle"
    /\ \/ state = "Connecting" /\ new \in {"Paused", "Error"}
       \/ state = "Paused" /\ new = "Streaming" /\ n_buffers > 0
       \/ state = "Paused" /\ new = "Error"
       \/ state = "Streaming" /\ new \in {"Paused", "Error"}
    /\ state' = new
    /\ chan' = IF new = "Paused" THEN <<>> ELSE chan
    /\ UNCHANGED <<driving, n_buffers, user_data, loc, loop_pc, cpc, cbuf, qret>>

\* The transport gives or takes the driver role.
driving_changed ==
    /\ UNCHANGED <<svars, nvars, xvars>>
    /\ loop_pc = "idle"
    /\ state \in {"Paused", "Streaming"}
    /\ driving' = ~driving
    /\ UNCHANGED <<state, n_buffers, user_data, loc, chan, loop_pc, cpc, cbuf, qret>>

\* add_buffer listener: the transport allocates the next slot while the stream
\* is paused; info is what the backend's add_buffer callback returned.
on_add_buffer(info) ==
    /\ UNCHANGED <<svars, nvars, xvars>>
    /\ loop_pc = "idle"
    /\ state = "Paused"
    /\ n_buffers < NumBuffers
    /\ LET b == n_buffers + 1 IN
        /\ n_buffers' = b
        /\ user_data' = [user_data EXCEPT ![b] = IF info = "Some" THEN "set" ELSE "null"]
        /\ loc' = [loc EXCEPT ![b] = "pool"]
    /\ UNCHANGED <<state, driving, chan, loop_pc, cpc, cbuf, qret>>

\* on_remove_buffer for one slot: a missing user handle is skipped, otherwise
\* the backend's remove_buffer runs and the allocation is freed; the pointer
\* in pw_buffer.user_data is left as it was.
on_remove_buffer(u) == IF u = "null" THEN "null" ELSE "freed"

\* The transport clears its pool (renegotiation): one remove_buffer event per
\* slot of the pool, back to back on the main-loop thread.
remove_buffers ==
    /\ UNCHANGED <<svars, nvars, xvars>>
    /\ loop_pc = "idle"
    /\ state \in {"Paused", "Error"}
    /\ n_buffers > 0
    /\ user_data' = [b \in Slots |->
                        IF b <= n_buffers THEN on_remove_buffer(user_data[b]) ELSE user_data[b]]
    /\ loc' = [b \in Slots |-> "none"]
    /\ n_buffers' = 0
    /\ UNCHANGED <<state, driving, chan, loop_pc, cpc, cbuf, qret>>

\* ---------------------------------------------------------------- caller thread
\* The capture function of the backends (vulkan capture, gl capture):
\* try_dequeue_buffer, copy the frame into the buffer, try_queue_buffer_process.

caller_dequeue ==
    /\ UNCHANGED <<svars, nvars, xvars>>
    /\ cpc = "idle"
    /\ cpc' = "dequeue_wait"
    /\ UNCHANGED <<state, driving, n_buffers, user_data, loc, chan, loop_pc, cbuf, qret>>

\* An error between dequeue and queue (the `?` exits of the copy) drops the handle.
caller_abort ==
    /\ UNCHANGED <<svars, nvars, xvars>>
    /\ cpc = "copy"
    /\ cpc' = "idle"
    /\ cbuf' = 0
    /\ UNCHANGED <<state, driving, n_buffers, user_data, loc, chan, loop_pc, qret>>

caller_queue ==
    /\ UNCHANGED <<svars, nvars, xvars>>
    /\ cpc = "copy"
    /\ cpc' = "queue_wait"
    /\ UNCHANGED <<state, driving, n_buffers, user_data, loc, chan, loop_pc, cbuf, qret>>

\* ---------------------------------------------------------------- message handlers

\* dequeue_buffer without the user-data test.
dequeue_result_unchecked(u) == "Some"

\* dequeue_buffer's last test: a transport buffer without user data is broken.
dequeue_result(u) == IF u = "null" THEN "None" ELSE "Some"

\* A gate that tests the driver role only.
dequeue_ready_driving_only == driving

\* dequeue_buffer's gate: the stream state is Streaming and the stream is driving.
dequeue_ready == state = "Streaming" /\ driving

\* StreamImpl::dequeue_buffer, run by the main loop for the caller's message.
\* dequeue_raw_buffer returns a buffer the transport holds, or null when none
\* of them is ready.
dequeue_buffer ==
    /\ UNCHANGED <<svars, nvars, xvars>>
    /\ loop_pc = "idle"
    /\ cpc = "dequeue_wait"
    /\ IF ~dequeue_ready THEN
            /\ cpc' = "idle"
            /\ UNCHANGED <<loc, cbuf>>
       ELSE \/ /\ cpc' = "idle"
               /\ UNCHANGED <<loc, cbuf>>
            \/ \E b \in Slots :
                /\ b <= n_buffers /\ loc[b] = "pool"
                /\ IF dequeue_result(user_data[b]) = "None" THEN
                        /\ cpc' = "idle"
                        /\ UNCHANGED <<loc, cbuf>>
                   ELSE
                        /\ loc' = [loc EXCEPT ![b] = "app"]
                        /\ cpc' = "copy"
                        /\ cbuf' = b
    /\ UNCHANGED <<state, driving, n_buffers, user_data, chan, loop_pc, qret>>

\* An unbounded channel always has room.
send_ready_unbounded(c) == TRUE

\* The bounded channel accepts a message only while it holds fewer than its capacity.
send_ready(c) == Len(c) < MAX_PROCESS_BUFFERS

\* What stream.trigger_process()? makes of the call once the handle is sent.
trigger_process == {"Ok", "Err"}

\* StreamImpl::queue_buffer_process, run by the main loop for the caller's
\* message.  Sender::send blocks the main-loop thread while the channel is full.
queue_buffer_process ==
    /\ UNCHANGED <<svars, nvars, xvars>>
    /\ loop_pc = "idle"
    /\ cpc = "queue_wait"
    /\ IF ~driving THEN
            /\ qret' = "Ok" /\ cpc' = "idle" /\ cbuf' = 0
            /\ UNCHANGED <<chan, loop_pc>>
       ELSE IF send_ready(chan) THEN
            /\ chan' = send(chan, cbuf)
            /\ qret' \in trigger_process /\ cpc' = "idle" /\ cbuf' = 0
            /\ UNCHANGED loop_pc
       ELSE
            /\ loop_pc' = "send"
            /\ UNCHANGED <<chan, qret, cpc, cbuf>>
    /\ UNCHANGED <<state, driving, n_buffers, user_data, loc>>

\* The blocked Sender::send completes once the data thread has taken a handle;
\* queue_buffer_process then triggers processing and returns Ok.
send_unblocked ==
    /\ UNCHANGED <<svars, nvars, xvars>>
    /\ loop_pc = "send"
    /\ send_ready(chan)
    /\ chan' = send(chan, cbuf)
    /\ loop_pc' = "idle"
    /\ qret' \in trigger_process /\ cpc' = "idle" /\ cbuf' = 0
    /\ UNCHANGED <<state, driving, n_buffers, user_data, loc>>

\* ---------------------------------------------------------------- data thread

\* on_process_buffer for the handle taken from the channel: without user data
\* the buffer is reported broken; otherwise the backend's process_buffer runs
\* on what user_data points to and the buffer is queued to the transport.
on_process_buffer(l, b) ==
    IF user_data[b] = "null" THEN l ELSE queue_raw_buffer(l, b)

\* The handles on_process_buffer passes to the backend's process_buffer when
\* it is given handle b: none when the user data is missing.
user_process(b) == IF user_data[b] = "null" THEN <<>> ELSE <<b>>

\* A process callback that empties the channel (try_iter) in one invocation.
RECURSIVE process_all(_, _)
process_all(c, l) ==
    IF c = <<>> THEN [chan |-> c, loc |-> l, invoked |-> <<>>]
    ELSE LET r == process_all(Tail(c), on_process_buffer(l, Head(c)))
         IN [r EXCEPT !.invoked = user_process(Head(c)) \o @]

\* One invocation of the process callback on channel c and buffer owners l:
\* try_recv takes one handle and on_process_buffer runs on it; with nothing
\* to receive the call is reported as unscheduled and nothing else happens.
process_once(c, l) ==
    IF c = <<>> THEN [chan |-> c, loc |-> l, invoked |-> <<>>]
    ELSE [chan |-> Tail(c), loc |-> on_process_buffer(l, Head(c)),
          invoked |-> user_process(Head(c))]

\* process listener (real-time data thread).  The transport schedules the
\* stream's node only while it is Streaming.
process ==
    /\ UNCHANGED <<svars, nvars, xvars>>
    /\ state = "Streaming"
    /\ chan' = process_once(chan, loc).chan
    /\ loc' = process_once(chan, loc).loc
    /\ UNCHANGED <<state, driving, n_buffers, user_data, loop_pc, cpc, cbuf, qret>>

Next ==
    \/ \E new \in {"Paused", "Streaming", "Error"} : state_changed(new)
    \/ driving_changed
    \/ \E info \in {"Some", "None"} : on_add_buffer(info)
    \/ remove_buffers
    \/ caller_dequeue
    \/ caller_abort
    \/ caller_queue
    \/ dequeue_buffer
    \/ queue_buffer_process
    \/ send_unblocked
    \/ process

\* The buffer hand-off of one stream; the session is left as constructed.

Spec == Init /\ [][Next]_vars

\* ---------------------------------------------------------------- session: callers
\* A pw::channel is a queue behind a mutex.  Sender::send pushes under the
\* mutex and succeeds whether or not a receiver is attached; the attached
\* callback takes the mutex and drains the whole queue through the handler.
\* A proxy method with a return value sends its message and then blocks in
\* recv() on a fresh one-shot channel whose sender travels in the message.

Msg(k, c) == [kind |-> k, from |-> c]

\* What of a stream had been torn down when a call on it is posted.
torn_down(id) ==
    IF sstate[id] = "Unconnected" THEN "stream_terminated"
    ELSE IF id \notin stream_map THEN "session_terminated"
    ELSE "live"

\* create_stream messages posted so far.
creates_posted ==
    stream_next_id
    + Cardinality({i \in DOMAIN cq : cq[i].kind = "create_stream"})
    + Cardinality({i \in DOMAIN cbatch : cbatch[i].kind = "create_stream"})

\* Client::proxy().try_terminate(), as in Drop for Client: terminate has no
\* return value, so the caller does not wait for the handler.
post_client_terminate ==
    /\ UNCHANGED <<bvars, nvars, xvars>>
    /\ ~panicked
    /\ c_terms < MaxClientTerminates
    /\ cbatch = <<>>
    /\ cq' = Append(cq, Msg("terminate", 0))
    /\ c_terms' = c_terms + 1
    /\ UNCHANGED <<loop_state, quit, panicked, cbatch, stream_next_id, stream_map, on_terminate,
                   sstate, sq, sbatch, handles, tpc, treq, tres, term_calls, term_req>>

\* Client::proxy().try_create_stream(info): send, then recv().
post_create_stream(c) ==
    /\ UNCHANGED <<bvars, nvars, xvars>>
    /\ ~panicked
    /\ tpc[c] = "idle"
    /\ creates_posted < MaxStreams
    /\ cbatch = <<>>
    /\ cq' = Append(cq, Msg("create_stream", c))
    /\ tpc' = [tpc EXCEPT ![c] = "wait"]
    /\ treq' = [treq EXCEPT ![c] =
                    [kind |-> "create_stream", sid |-> -1,
                     after |-> IF c_terms > 0 THEN "session_terminated" ELSE "live"]]
    /\ tres' = [tres EXCEPT ![c] = "none"]
    /\ UNCHANGED <<loop_state, quit, panicked, cbatch, stream_next_id, stream_map, on_terminate,
                   sstate, sq, sbatch, handles, term_calls, term_req, c_terms>>

\* A send that puts the message in front of the waiting ones.
push_front(q, m) == <<m>> \o q

\* pw_sender.send(msg): the message goes to the back of the channel's queue.
push_back(q, m) == Append(q, m)

\* Stream::proxy().try_<kind>() on a Stream handle the application holds.
post_stream(c, id, kind) ==
    /\ UNCHANGED <<bvars, nvars, xvars>>
    /\ ~panicked
    /\ tpc[c] = "idle"
    /\ id \in handles
    /\ sbatch.sid # id
    /\ sq' = [sq EXCEPT ![id] = push_back(@, Msg(kind, c))]
    /\ tpc' = [tpc EXCEPT ![c] = "wait"]
    /\ treq' = [treq EXCEPT ![c] = [kind |-> kind, sid |-> id, after |-> torn_down(id)]]
    /\ tres' = [tres EXCEPT ![c] = "none"]
    /\ term_req' = IF kind = "terminate" THEN term_req \cup {id} ELSE term_req
    /\ UNCHANGED <<loop_state, quit, panicked, cq, cbatch, stream_next_id, stream_map,
                   on_terminate, sstate, sbatch, term_calls, c_terms>>

\* An explicit stream.proxy().try_terminate(), as in destroy_swapchain_khr.
try_terminate(c, id) ==
    /\ post_stream(c, id, "terminate")
    /\ UNCHANGED handles

\* stream.proxy().try_dequeue_buffer(), as in the capture functions.
try_dequeue_buffer(c, id) ==
    /\ post_stream(c, id, "dequeue_buffer")
    /\ UNCHANGED handles

\* Drop for Stream: try_terminate() with the result ignored; the handle is gone.
drop_stream(c, id) ==
    /\ post_stream(c, id, "terminate")
    /\ handles' = handles \ {id}

\* The Client handle is still owned: no thread has dropped it.
client_held == \A d \in Callers : tpc[d] \notin {"join", "joined"}

\* Drop for Client: try_terminate() is posted (the send does not fail), then
\* the dropping thread joins the loop thread.
drop_client(c) ==
    /\ UNCHANGED <<bvars, nvars, xvars>>
    /\ ~panicked
    /\ tpc[c] = "idle"
    /\ client_held
    /\ cbatch = <<>>
    /\ cq' = Append(cq, Msg("terminate", 0))
    /\ c_terms' = c_terms + 1
    /\ tpc' = [tpc EXCEPT ![c] = "join"]
    /\ treq' = [treq EXCEPT ![c] = [kind |-> "drop_client", sid |-> -1, after |-> "live"]]
    /\ tres' = [tres EXCEPT ![c] = "none"]
    /\ UNCHANGED <<loop_state, quit, panicked, cbatch, stream_next_id, stream_map, on_terminate,
                   sstate, sq, sbatch, handles, term_calls, term_req>>

\* A join that does not wait for the thread.
thread_finished_unchecked == TRUE

\* JoinHandle::join returns once pw_thread has returned.
thread_finished == loop_state = "exited"

\* Drop for Client: th.join() returns and the drop is over.
join(c) ==
    /\ UNCHANGED <<bvars, nvars, xvars>>
    /\ ~panicked
    /\ tpc[c] = "join"
    /\ thread_finished
    /\ tpc' = [tpc EXCEPT ![c] = "joined"]
    /\ tres' = [tres EXCEPT ![c] = "Joined"]
    /\ UNCHANGED <<loop_state, quit, panicked, cq, cbatch, stream_next_id, stream_map,
                   on_terminate, sstate, sq, sbatch, handles, treq, term_calls, term_req, c_terms>>

\* ---------------------------------------------------------------- session: main loop

\* The loop thread is between two callbacks and has not been told to quit.
loop_idle ==
    /\ loop_state = "running" /\ ~quit /\ ~panicked
    /\ cbatch = <<>> /\ sbatch = NoBatch

\* The callback attached in pw_thread fires: the queue of ClientMessage is drained.
client_receive ==
    /\ UNCHANGED <<bvars, nvars, xvars>>
    /\ loop_idle
    /\ cq # <<>>
    /\ cbatch' = cq
    /\ cq' = <<>>
    /\ UNCHANGED <<loop_state, quit, panicked, stream_next_id, stream_map, on_terminate,
                   sstate, sq, sbatch, handles, tpc, treq, tres, term_calls, term_req, c_terms>>

\* A terminate that leaves the registry as it is.
clear_nothing(map) == map

\* DashMap::clear
clear(map) == {}

\* ClientImpl::terminate: the registry is cleared (every stream's receiver is
\* detached with it) and the loop is told to quit.
client_terminate ==
    /\ UNCHANGED <<bvars, nvars, xvars>>
    /\ ~panicked
    /\ cbatch # <<>> /\ Head(cbatch).kind = "terminate"
    /\ cbatch' = Tail(cbatch)
    /\ stream_map' = clear(stream_map)
    /\ quit' = TRUE
    /\ UNCHANGED <<loop_state, panicked, cq, stream_next_id, on_terminate, sstate, sq, sbatch,
                   handles, tpc, treq, tres, term_calls, term_req, c_terms>>

\* A counter that is not advanced.
same_id(id) == id

\* stream_next_id += 1
next_id(id) == id + 1

\* ClientImpl::create_stream: the id is taken and the counter advanced before
\* StreamImpl::new, which may fail; on success the stream is attached and
\* registered and the Stream handle is sent back.
create_stream ==
    /\ UNCHANGED <<bvars, nvars, xvars>>
    /\ ~panicked
    /\ cbatch # <<>> /\ Head(cbatch).kind = "create_stream"
    /\ cbatch' = Tail(cbatch)
    /\ LET id == stream_next_id
           c == Head(cbatch).from
       IN /\ stream_next_id' = next_id(id)
          /\ tpc' = [tpc EXCEPT ![c] = "idle"]
          /\ \/ /\ tres' = [tres EXCEPT ![c] = "Err"]
                /\ UNCHANGED <<stream_map, on_terminate, sstate, handles>>
             \/ /\ tres' = [tres EXCEPT ![c] = "Stream"]
                /\ stream_map' = stream_map \cup {id}
                /\ on_terminate' = [on_terminate EXCEPT ![id] = TRUE]
                /\ sstate' = [sstate EXCEPT ![id] = "Connecting"]
                /\ handles' = handles \cup {id}
    /\ UNCHANGED <<loop_state, quit, panicked, cq, sq, sbatch, treq, term_calls, term_req, c_terms>>

\* mainloop.run() returns once quit() was called and the running callback is
\* done; pw_thread then drops the client receiver and the session.
loop_exit ==
    /\ UNCHANGED <<bvars, nvars, xvars>>
    /\ loop_state = "running" /\ quit /\ ~panicked
    /\ cbatch = <<>> /\ sbatch = NoBatch
    /\ loop_state' = "exited"
    /\ UNCHANGED <<quit, panicked, cq, cbatch, stream_next_id, stream_map, on_terminate, sstate,
                   sq, sbatch, handles, tpc, treq, tres, term_calls, term_req, c_terms>>

\* The callback attached by StreamImpl::attach fires for a registered stream:
\* the queue of StreamMessage is drained.
attach(id) ==
    /\ UNCHANGED <<bvars, nvars, xvars>>
    /\ loop_idle
    /\ id \in stream_map
    /\ sq[id] # <<>>
    /\ sbatch' = [sid |-> id, msgs |-> sq[id]]
    /\ sq' = [sq EXCEPT ![id] = <<>>]
    /\ UNCHANGED <<loop_state, quit, panicked, cq, cbatch, stream_next_id, stream_map,
                   on_terminate, sstate, handles, tpc, treq, tres, term_calls, term_req, c_terms>>

\* The rest of the drained messages once the head is handled.
rest_of_batch ==
    IF Tail(sbatch.msgs) = <<>> THEN NoBatch ELSE [sbatch EXCEPT !.msgs = Tail(@)]

\* An Option::take that leaves the value in place.
take_keep(slot) == slot

\* Option::take leaves None in the slot.
take(slot) == FALSE

\* A callback that leaves the registry as it is.
keep_entry(map, id) == map

\* The on_terminate closure of create_stream: stream_map.remove(&id).
remove(map, id) == map \ {id}

\* StreamImpl::terminate: disconnect, then take on_terminate and run it.  The
\* callback removes the stream's registry entry (which detaches the receiver
\* this very handler was called from) and expects the entry to be there.
terminate ==
    /\ UNCHANGED <<bvars, nvars, xvars>>
    /\ ~panicked
    /\ sbatch # NoBatch /\ Head(sbatch.msgs).kind = "terminate"
    /\ LET id == sbatch.sid
           c == Head(sbatch.msgs).from
       IN /\ sstate' = [sstate EXCEPT ![id] = "Unconnected"]
          /\ on_terminate' = [on_terminate EXCEPT ![id] = take(@)]
          /\ IF on_terminate[id] THEN
                /\ term_calls' = [term_calls EXCEPT ![id] = @ + 1]
                /\ stream_map' = remove(stream_map, id)
                /\ panicked' = (id \notin stream_map)
             ELSE UNCHANGED <<term_calls, stream_map, panicked>>
          /\ IF panicked' THEN UNCHANGED <<tpc, tres>>
             ELSE /\ tpc' = [tpc EXCEPT ![c] = "idle"]
                  /\ tres' = [tres EXCEPT ![c] = "Ok"]
    /\ sbatch' = rest_of_batch
    /\ UNCHANGED <<loop_state, quit, cq, cbatch, stream_next_id, sq, handles, treq,
                   term_req, c_terms>>

\* StreamImpl::dequeue_buffer of a stream that is not Streaming: None.
dequeue_buffer_not_streaming ==
    /\ UNCHANGED <<bvars, nvars, xvars>>
    /\ ~panicked
    /\ sbatch # NoBatch /\ Head(sbatch.msgs).kind = "dequeue_buffer"
    /\ LET c == Head(sbatch.msgs).from
       IN /\ tpc' = [tpc EXCEPT ![c] = "idle"]
          /\ tres' = [tres EXCEPT ![c] = "None"]
    /\ sbatch' = rest_of_batch
    /\ UNCHANGED <<loop_state, quit, panicked, cq, cbatch, stream_next_id, stream_map,
                   on_terminate, sstate, sq, handles, treq, term_calls, term_req, c_terms>>

\* A message drained together with a terminate and handled after it: the
\* receiver and its closure were freed by on_terminate while the drain runs,
\* so the closure's Weak is read from freed memory.  Besides finding the
\* stream (the handlers above), the upgrade may find nothing, in which case
\* the message and its result sender are dropped, or the thread may crash.
attach_freed ==
    /\ UNCHANGED <<bvars, nvars, xvars>>
    /\ ~panicked
    /\ sbatch # NoBatch /\ sbatch.sid \notin stream_map
    /\ LET c == Head(sbatch.msgs).from
       IN \/ /\ tpc' = [tpc EXCEPT ![c] = "idle"]
             /\ tres' = [tres EXCEPT ![c] = "Err"]
             /\ sbatch' = rest_of_batch
             /\ UNCHANGED panicked
          \/ /\ panicked' = TRUE
             /\ UNCHANGED <<tpc, tres, sbatch>>
    /\ UNCHANGED <<loop_state, quit, cq, cbatch, stream_next_id, stream_map, on_terminate,
                   sstate, sq, handles, treq, term_calls, term_req, c_terms>>

SessionNext ==
    \/ post_client_terminate
    \/ \E c \in Callers : post_create_stream(c)
    \/ \E c \in Callers, id \in StreamIds : try_terminate(c, id)
    \/ \E c \in Callers, id \in StreamIds : try_dequeue_buffer(c, id)
    \/ \E c \in Callers, id \in StreamIds : drop_stream(c, id)
    \/ \E c \in Callers : drop_client(c)
    \/ \E c \in Callers : join(c)
    \/ client_receive
    \/ client_terminate
    \/ create_stream
    \/ loop_exit
    \/ \E id \in StreamIds : attach(id)
    \/ terminate
    \/ dequeue_buffer_not_streaming
    \/ attach_freed

\* The session and its streams' command bridges; buffers are left as constructed.
SpecSession == Init /\ [][SessionNext]_vars

\* A step of a handler the loop thread is running or has been told to run.
HandlerStep ==
    \/ client_terminate
    \/ create_stream
    \/ loop_exit
    \/ terminate
    \/ dequeue_buffer_not_streaming
    \/ attach_freed

\* The session on a loop that keeps dispatching: every iteration of the
\* loop dispatches each channel that has messages, so a channel that has
\* messages whenever the loop is idle is drained; and a handler that has
\* been entered goes on.
SpecSessionFair ==
    /\ SpecSession
    /\ SF_vars(client_receive)
    /\ \A id \in StreamIds : SF_vars(attach(id))
    /\ WF_vars(HandlerStep)

\* The calling thread waits in recv() for a result that will never be sent:
\* its message lies in a queue that no callback will drain again (the
\* stream's receiver is detached and ids are never reused; or the loop has
\* exited), and the queue keeps the result sender alive.
Parked(c) ==
    /\ tpc[c] = "wait" /\ ~panicked
    /\ \/ loop_state = "exited"
       \/ /\ treq[c].kind # "create_stream"
          /\ treq[c].sid \notin stream_map
          /\ sbatch.sid # treq[c].sid

\* ---------------------------------------------------------------- format negotiation

\* Option values: None is the empty sequence, Some(x) is <<x>>.
None == <<>>
Some(x) == <<x>>

\* Offers a backend may create a stream with: one or two alternatives, each a
\* non-empty format list with a modifier list (empty: no modifiers).
OfferEntries ==
    { [formats |-> f, modifiers |-> m] :
        f \in {<<"A">>, <<"A", "B">>}, m \in {<<>>, <<7, 3>>} }
Offers == { <<e>> : e \in OfferEntries } \cup { <<e1, e2>> : e1, e2 \in OfferEntries }

\* Payloads of a param_changed event.  A Format object carries the ids of its
\* format property (possibly none) and the values and don't-fixate flag of its
\* modifier property (no values: no modifier list).
FormatPods ==
    { [kind |-> "format", id |-> "Format", format_ids |-> f, modifiers |-> m, dont_fixate |-> d] :
        f \in {<<>>, <<"A">>, <<"B", "A">>},
        m \in {<<>>, <<7>>, <<7, 3>>},
        d \in BOOLEAN }
OtherPods ==
    { [kind |-> k, id |-> i, format_ids |-> <<>>, modifiers |-> <<>>, dont_fixate |-> FALSE] :
        k \in {"null", "garbage", "not_object", "not_format"}, i \in {"Format"} }
    \cup { [kind |-> "format", id |-> "Props", format_ids |-> <<"A">>, modifiers |-> <<>>,
            dont_fixate |-> FALSE] }
Proposals == FormatPods \cup OtherPods

\* What fixate_format may return: None, or Some(FixateFormat).
FixateReplies ==
    {None} \cup
    { Some([modifier |-> m, num_planes |-> n]) :
        m \in {None} \cup {Some(x) : x \in Modifiers}, n \in 0..MaxPlanes }

\* TryFrom<Value> for VideoRawInfo: only a Format object converts; its format
\* is the first id of the format property, its modifiers the values of the
\* modifier property.
VideoRawInfo(pod) ==
    IF pod.kind # "format" \/ pod.format_ids = <<>> THEN None
    ELSE Some([format |-> pod.format_ids[1],
               dont_fixate_modifier |-> pod.dont_fixate,
               modifiers |-> pod.modifiers])

\* A dead end that falls back to publishing the offer again.
republish_offer(cur) == [params |-> enum_params(enum_formats), calls |-> <<>>, panic |-> FALSE]

\* The outcome of a listener call that publishes nothing.
unchanged(cur) == [params |-> cur, calls |-> <<>>, panic |-> FALSE]

\* on_param_changed for the proposal pod, with reply being what fixate_format
\* returns if it is called: the parameters published afterwards, the
\* fixate_format calls made, and whether the callback panicked.
on_param_changed(offer, cur, pod, reply) ==
    IF pod.kind = "null" \/ pod.id # "Format" THEN unchanged(cur)
    ELSE IF pod.kind = "garbage" THEN unchanged(cur)
    ELSE IF VideoRawInfo(pod) = None THEN unchanged(cur)
    ELSE LET raw_info == VideoRawInfo(pod)[1]
             called == [unchanged(cur) EXCEPT
                            !.calls = << [formats |-> <<raw_info.format>>,
                                          modifiers |-> raw_info.modifiers] >>]
         IN IF reply = None THEN called
            ELSE LET fixate_info == reply[1] IN
                 IF Len(raw_info.modifiers) > 0 /\ fixate_info.modifier = None
                 THEN [called EXCEPT !.panic = TRUE]
                 ELSE IF Len(raw_info.modifiers) > 0 /\ raw_info.dont_fixate_modifier
                 THEN [called EXCEPT !.params =
                            << build_format(<<raw_info.format>>, fixate_info.modifier, TRUE) >>
                            \o enum_params(offer)]
                 ELSE [called EXCEPT !.params =
                            build_stream_params(max_buffers, fixate_info.num_planes,
                                                fixate_info.modifier # None)]

\* The call reaches fixate_format.
calls_fixate(pod) ==
    pod.kind # "null" /\ pod.id = "Format" /\ pod.kind # "garbage" /\ VideoRawInfo(pod) # None

\* param_changed listener: the transport proposes a format (or reports some
\* other parameter); the backend's fixate_format answers if it is asked.
param_changed ==
    /\ UNCHANGED <<bvars, svars, xvars>>
    /\ ~listener_panic
    /\ \E pod \in Proposals :
        \E reply \in (IF calls_fixate(pod) THEN FixateReplies ELSE {None}) :
            LET r == on_param_changed(enum_formats, published, pod, reply)
            IN /\ published' = r.params
               /\ fixate_calls' = r.calls
               /\ listener_panic' = r.panic
               /\ last_event' = [kind |-> "param_changed", pod |-> pod, reply |-> reply]
    /\ UNCHANGED <<enum_formats, max_buffers>>

\* The buffer parameter is published: the transport may allocate buffers.
buffers_negotiated == Len(published) > 0 /\ published[1].obj = "ParamBuffers"

\* on_add_buffer's assert_eq!(spa_buffer.n_datas, info.planes.len()).
planes_match(n, planes) == n = planes

\* add_buffer listener after negotiation: the transport's buffer has as many
\* data blocks as were published, the backend's BufferInfo has planes planes.
add_buffer ==
    /\ UNCHANGED <<bvars, svars, xvars>>
    /\ ~listener_panic
    /\ buffers_negotiated
    /\ \E planes \in 0..MaxPlanes :
        /\ listener_panic' = ~planes_match(published[1].blocks, planes)
        /\ last_event' = [kind |-> "add_buffer", planes |-> planes]
    /\ fixate_calls' = <<>>
    /\ UNCHANGED <<enum_formats, max_buffers, published>>

NegotiationNext ==
    \/ param_changed
    \/ add_buffer

\* One stream created with any of the offers, and its negotiation events.
NegotiationInit ==
    /\ StreamInit /\ SessionInit /\ RestInit
    /\ \E offer \in Offers, max \in StreamMaxBuffers : StreamParamsInit(offer, max)

SpecNegotiation == NegotiationInit /\ [][NegotiationNext]_vars

\* ---------------------------------------------------------------- transport buffers
\* The add_buffer and remove_buffer listeners with the backend's callbacks:
\* what is written to a transport buffer, which user handles the backend has
\* out, and which handles remove_buffer is called with.

\* User handles (VkImage, GL texture) a backend can have allocated at a time.
MaxHandles == 3
UserHandles == 1..MaxHandles

\* A data block as the transport allocated it, as on_add_buffer marks it when
\* the backend has no buffer (fd = -1, data = null, type Invalid), and as it
\* fills it from a plane.
TransportData == [type |-> "Unset", fd |-> "unset"]
InvalidData == [type |-> "Invalid", fd |-> "-1"]
PlaneData(is_dma_buf) == [type |-> IF is_dma_buf THEN "DmaBuf" ELSE "MemFd", fd |-> "plane"]

\* What the backend's add_buffer may return while it has the handles live
\* out: None, or a BufferInfo with a plane count and a newly allocated handle.
BufferInfos(live) ==
    {None} \cup
    { Some([is_dma_buf |-> d, planes |-> p, user_handle |-> h]) :
        d \in BOOLEAN, p \in 0..MaxPlanes, h \in UserHandles \ live }

\* on_add_buffer on a transport buffer with blocks data blocks, info being
\* what the backend's add_buffer returned: user_data is nulled first; on None
\* every data block is marked invalid; on a BufferInfo the plane count is
\* asserted equal to the block count, the blocks are filled from the planes
\* and user_data is set to a copy of the user handle.
add_buffer_outcome(blocks, info) ==
    IF info = None
    THEN [user_data |-> None, datas |-> [i \in 1..blocks |-> InvalidData], panic |-> FALSE]
    ELSE IF ~planes_match(blocks, info[1].planes)
    THEN [user_data |-> None, datas |-> [i \in 1..blocks |-> TransportData], panic |-> TRUE]
    ELSE [user_data |-> Some(info[1].user_handle),
          datas |-> [i \in 1..blocks |-> PlaneData(info[1].is_dma_buf)],
          panic |-> FALSE]

\* add_buffer listener: the transport has allocated one more buffer.
pool_add_buffer ==
    /\ UNCHANGED <<bvars, svars, nvars, cvars, fvars, yvars>>
    /\ ~pool_panic
    /\ Len(pw_buffers) < NumBuffers
    /\ \E info \in BufferInfos(backend) :
        LET r == add_buffer_outcome(n_datas, info)
        IN /\ pw_buffers' = Append(pw_buffers,
                                    [user_data |-> r.user_data, datas |-> r.datas, info |-> info])
           /\ backend' = IF info = None THEN backend ELSE backend \cup {info[1].user_handle}
           /\ pool_panic' = r.panic
           /\ pool_event' = [kind |-> "add_buffer", info |-> info, removed |-> <<>>]
    /\ UNCHANGED n_datas

\* An on_remove_buffer that never calls the backend.
remove_buffer_skipped(ptr) == <<>>

\* on_remove_buffer: the handles the backend's remove_buffer is called with
\* for a buffer whose user_data is ptr (none when it is null).
remove_buffer_calls(ptr) == IF ptr = None THEN <<>> ELSE <<ptr[1]>>

\* remove_buffer listener: the transport removes its buffers oldest first,
\* one event each.
pool_remove_buffer ==
    /\ UNCHANGED <<bvars, svars, nvars, cvars, fvars, yvars>>
    /\ ~pool_panic
    /\ pw_buffers # <<>>
    /\ LET calls == remove_buffer_calls(Head(pw_buffers).user_data)
       IN /\ pool_event' = [kind |-> "remove_buffer", info |-> None, removed |-> calls]
          /\ backend' = backend \ {calls[i] : i \in DOMAIN calls}
    /\ pw_buffers' = Tail(pw_buffers)
    /\ UNCHANGED <<n_datas, pool_panic>>

PoolNext ==
    \/ pool_add_buffer
    \/ pool_remove_buffer

\* One stream's transport buffers, every buffer with the negotiated number
\* of data blocks.
PoolSpecInit ==
    /\ StreamInit /\ SessionInit /\ StreamParamsInit(DefaultOffer, MAX_BUFFERS)
    /\ ConstructInit /\ FormatInit(0) /\ YInit
    /\ \E blocks \in 1..MaxPlanes : PoolInit(blocks)

SpecPool == PoolSpecInit /\ [][PoolNext]_vars

\* The buffer the last add_buffer event was for.
AddedBuffer == pw_buffers[Len(pw_buffers)]

\* ---------------------------------------------------------------- session construction
\* Client::new spawns pw_thread and waits in done_receiver.recv().  pw_thread
\* owns done_sender: it sends () once the receiver of ClientMessage is
\* attached, and every return of pw_thread (each `?`) drops the sender.

\* A thread that returns without dropping what it owns.
leak_sender(ch) == ch

\* The last Sender of the channel is dropped: the channel is disconnected.
drop_sender(ch) == [ch EXCEPT !.sender = FALSE]

\* Receiver::recv on the channel: a message if there is one, an error once
\* the channel is empty and disconnected, otherwise the caller keeps waiting.
recv(ch) == IF ch.msgs > 0 THEN "Ok" ELSE IF ~ch.sender THEN "Err" ELSE "wait"

\* pw_thread returns Err from step: its locals, done_sender among them, are dropped.
thread_fails(k, step) ==
    /\ pw_thread' = [pw_thread EXCEPT ![k] = [@ EXCEPT !.pc = "failed", !.err = step]]
    /\ done' = [done EXCEPT ![k] = drop_sender(@)]

\* Client::new up to the recv(): the channels are made and the thread spawned.
new_spawn(k) ==
    /\ UNCHANGED <<bvars, svars, nvars, pvars, fvars, yvars>>
    /\ new_pc[k] = "start"
    /\ new_pc' = [new_pc EXCEPT ![k] = "recv"]
    /\ pw_thread' = [pw_thread EXCEPT ![k] = [@ EXCEPT !.pc = "init"]]
    /\ UNCHANGED done

\* pw_thread: MainLoop::new(None)?
thread_mainloop(k) ==
    /\ UNCHANGED <<bvars, svars, nvars, pvars, fvars, yvars>>
    /\ pw_thread[k].pc = "init"
    /\ \/ /\ pw_thread' = [pw_thread EXCEPT ![k] = [@ EXCEPT !.pc = "mainloop", !.mainloop = TRUE]]
          /\ UNCHANGED done
       \/ thread_fails(k, "mainloop")
    /\ UNCHANGED new_pc

\* pw_thread: Context::with_properties(&mainloop, ..)?
thread_context(k) ==
    /\ UNCHANGED <<bvars, svars, nvars, pvars, fvars, yvars>>
    /\ pw_thread[k].pc = "mainloop"
    /\ \/ /\ pw_thread' = [pw_thread EXCEPT ![k] = [@ EXCEPT !.pc = "context", !.context = TRUE]]
          /\ UNCHANGED done
       \/ thread_fails(k, "context")
    /\ UNCHANGED new_pc

\* pw_thread: context.connect(None)?
thread_connect(k) ==
    /\ UNCHANGED <<bvars, svars, nvars, pvars, fvars, yvars>>
    /\ pw_thread[k].pc = "context"
    /\ \/ /\ pw_thread' = [pw_thread EXCEPT ![k] = [@ EXCEPT !.pc = "connected", !.core = TRUE]]
          /\ UNCHANGED done
       \/ thread_fails(k, "connect")
    /\ UNCHANGED new_pc

\* pw_thread: the session state is built and pw_receiver.attach(..) is called.
thread_attach(k) ==
    /\ UNCHANGED <<bvars, svars, nvars, pvars, fvars, yvars>>
    /\ pw_thread[k].pc = "connected"
    /\ pw_thread' = [pw_thread EXCEPT ![k] = [@ EXCEPT !.pc = "attached", !.attached = TRUE]]
    /\ UNCHANGED <<new_pc, done>>

\* pw_thread: done_sender.send(())? on the empty bounded(1) channel, whose
\* receiver Client::new holds; drop(done_sender); mainloop.run().
thread_send(k) ==
    /\ UNCHANGED <<bvars, svars, nvars, pvars, fvars, yvars>>
    /\ pw_thread[k].pc = "attached"
    /\ done[k].msgs = 0
    /\ done' = [done EXCEPT ![k] = drop_sender([@ EXCEPT !.msgs = 1])]
    /\ pw_thread' = [pw_thread EXCEPT ![k] = [@ EXCEPT !.pc = "running"]]
    /\ UNCHANGED new_pc

\* Client::new: done_receiver.recv() returns; Ok gives the Client, an error
\* is returned with its context.
new_return(k) ==
    /\ UNCHANGED <<bvars, svars, nvars, pvars, fvars, yvars>>
    /\ new_pc[k] = "recv"
    /\ recv(done[k]) # "wait"
    /\ new_pc' = [new_pc EXCEPT ![k] = recv(done[k])]
    /\ done' = [done EXCEPT ![k] = [@ EXCEPT !.msgs = 0]]
    /\ UNCHANGED pw_thread

\* A step of the loop thread of construction k.
thread_step(k) ==
    \/ thread_mainloop(k)
    \/ thread_context(k)
    \/ thread_connect(k)
    \/ thread_attach(k)
    \/ thread_send(k)

ConstructNext ==
    \/ \E k \in Clients : new_spawn(k)
    \/ \E k \in Clients : thread_mainloop(k)
    \/ \E k \in Clients : thread_context(k)
    \/ \E k \in Clients : thread_connect(k)
    \/ \E k \in Clients : thread_attach(k)
    \/ \E k \in Clients : thread_send(k)
    \/ \E k \in Clients : new_return(k)

\* Sessions under construction.  A spawned thread is scheduled, and a recv()
\* that can return does.
SpecConstruct ==
    /\ Init
    /\ [][ConstructNext]_vars
    /\ \A k \in Clients : WF_vars(thread_step(k)) /\ WF_vars(new_return(k))

\* ---------------------------------------------------------------- Format conversions
\* Format is #[repr(u32)] with implicit discriminants and derives
\* IntoPrimitive and FromPrimitive with UNKNOWN as #[num_enum(default)].

\* The variants of Format in the order of their declaration.
FormatVariants ==
    << "UNKNOWN", "ENCODED", "I420", "YV12", "YUY2", "UYVY", "AYUV", "RGBx", "BGRx",
       "xRGB", "xBGR", "RGBA", "BGRA", "ARGB", "ABGR", "RGB", "BGR", "Y41B", "Y42B",
       "YVYU", "Y444", "v210", "v216", "NV12", "NV21", "GRAY8", "GRAY16_BE", "GRAY16_LE",
       "v308", "RGB16", "BGR16", "RGB15", "BGR15", "UYVP", "A420", "RGB8P", "YUV9", "YVU9",
       "IYU1", "ARGB64", "AYUV64", "r210", "I420_10BE", "I420_10LE", "I422_10BE",
       "I422_10LE", "Y444_10BE", "Y444_10LE", "GBR", "GBR_10BE", "GBR_10LE", "NV16",
       "NV24", "NV12_64Z32", "A420_10BE", "A420_10LE", "A422_10BE", "A422_10LE",
       "A444_10BE", "A444_10LE", "NV61", "P010_10BE", "P010_10LE", "IYU2", "VYUY", "GBRA",
       "GBRA_10BE", "GBRA_10LE", "GBR_12BE", "GBR_12LE", "GBRA_12BE", "GBRA_12LE",
       "I420_12BE", "I420_12LE", "I422_12BE", "I422_12LE", "Y444_12BE", "Y444_12LE",
       "RGBA_F16", "RGBA_F32", "xRGB_210LE", "xBGR_210LE", "RGBx_102LE", "BGRx_102LE",
       "ARGB_210LE", "ABGR_210LE", "RGBA_102LE", "BGRA_102LE" >>

\* Largest u32 that is converted (u32 values beyond the table all take the
\* default arm).
MaxFormatValue == 127

\* The discriminant of the i-th variant: 0 for the first, one more than its
\* predecessor's for every other.
RECURSIVE discriminant(_)
discriminant(i) == IF i = 1 THEN 0 ELSE discriminant(i - 1) + 1

\* u32::from(Format) (IntoPrimitive): the variant's discriminant.
into_u32(f) ==
    discriminant(CHOOSE i \in 1..Len(FormatVariants) : FormatVariants[i] = f)

\* A conversion without default arm, which wraps around the table.
from_u32_wrapping(n) == FormatVariants[(n % Len(FormatVariants)) + 1]

\* Format::from(u32) (FromPrimitive): the variant with that discriminant,
\* UNKNOWN when there is none.
from_u32(n) ==
    IF \E i \in 1..Len(FormatVariants) : discriminant(i) = n
    THEN FormatVariants[CHOOSE i \in 1..Len(FormatVariants) : discriminant(i) = n]
    ELSE "UNKNOWN"

\* Format::from(fv_value)
from_primitive ==
    /\ UNCHANGED <<bvars, svars, nvars, pvars, cvars, yvars>>
    /\ fv_format = <<>>
    /\ fv_format' = <<from_u32(fv_value)>>
    /\ UNCHANGED <<fv_value, fv_u32>>

\* u32::from(format) / format.into()
into_primitive ==
    /\ UNCHANGED <<bvars, svars, nvars, pvars, cvars, yvars>>
    /\ fv_format # <<>> /\ fv_u32 = <<>>
    /\ fv_u32' = <<into_u32(fv_format[1])>>
    /\ UNCHANGED <<fv_value, fv_format>>

FormatNext ==
    \/ from_primitive
    \/ into_primitive

FormatSpecInit ==
    /\ StreamInit /\ SessionInit /\ StreamParamsInit(DefaultOffer, MAX_BUFFERS)
    /\ PoolInit(1) /\ ConstructInit /\ YInit
    /\ \E n \in 0..MaxFormatValue : FormatInit(n)

\* A u32 converted to a Format and back.
SpecFormat == FormatSpecInit /\ [][FormatNext]_vars

\* ---------------------------------------------------------------- buffer metadata
\* The process listener of one stream and the header and cursor metadata
\* on_process_buffer writes.  A metadata block is modelled by the fields the
\* call wrote (None: left as it was) and the number of pixel bytes copied
\* behind the bitmap header.

\* Buffers handed back to the transport in one behaviour.
MaxFrames == 3

\* BufferBitmap values of the backend: width, height and pixels.len().
Bitmaps == { [width |-> 1, height |-> 1, len |-> 4],
             [width |-> 64, height |-> 64, len |-> MAX_CURSOR_BITMAP_SIZE],
             [width |-> 65, height |-> 64, len |-> MAX_CURSOR_BITMAP_SIZE + 256] }

\* BufferCursorInfo values the backend may pass to add_cursor.
CursorInfos == [serial : BOOLEAN, position : {<<3, 4>>}, hotspot : {<<1, 1>>},
                bitmap : {None} \cup {Some(b) : b \in Bitmaps}]

\* A fill_cursor_meta that copies the pixels whatever their number.
copy_unchecked(len) == len

\* fill_cursor_meta: the pixel bytes copied for a bitmap of len bytes.
copy_from_slice(len) == IF len <= MAX_CURSOR_BITMAP_SIZE THEN len ELSE 0

\* A cursor counter that ignores the serial flag.
keep_id(id, serial) == id

\* fill_cursor_meta: the cursor counter after cursor info with the flag.
bump_id(id, serial) == IF serial THEN id + 1 ELSE id

\* fill_cursor_meta on counter id and the cursor block: the counter after
\* the call and what was written.
fill_cursor_meta(id, cursor_info) ==
    IF cursor_info # None
    THEN LET info == cursor_info[1]
             nid == bump_id(id, info.serial)
             copied == IF info.bitmap = None THEN 0 ELSE copy_from_slice(info.bitmap[1].len)
             kept == info.bitmap # None /\ info.bitmap[1].len <= MAX_CURSOR_BITMAP_SIZE
         IN [id |-> nid,
             cursor |-> [id |-> Some(nid), flags |-> Some(0),
                         position |-> Some(info.position), hotspot |-> Some(info.hotspot),
                         bitmap_offset |-> Some(IF kept THEN size_of_spa_meta_cursor ELSE 0),
                         bitmap |-> IF info.bitmap = None THEN None
                                    ELSE Some([width |-> info.bitmap[1].width,
                                               height |-> info.bitmap[1].height,
                                               stride |-> info.bitmap[1].width,
                                               offset |-> size_of_spa_meta_bitmap]),
                         pixels |-> copied]]
    ELSE [id |-> id,
          cursor |-> [id |-> Some(0), flags |-> None, position |-> None, hotspot |-> None,
                      bitmap_offset |-> None, bitmap |-> None, pixels |-> 0]]

\* A header stamp taken after the counter was advanced.
stamp_next(s) == s + 1

\* on_process_buffer: header.seq = data.seq.
stamp(s) == s

\* on_process_buffer on a buffer with user data: the backend's
\* process_buffer may call add_cursor once when the buffer has a cursor
\* block; the header is stamped when there is one, the counter advanced, a
\* cursor block no add_cursor call filled is filled with None.
stamp_buffer(data, has_header, has_cursor, cursor_info) ==
    LET filled == fill_cursor_meta(data.cursor_id, IF has_cursor THEN cursor_info ELSE None)
    IN [data |-> [seq |-> data.seq + 1, cursor_id |-> filled.id],
        frame |-> [header |-> IF has_header THEN Some(stamp(data.seq)) ELSE None,
                   cursor |-> IF has_cursor THEN Some(filled.cursor) ELSE None,
                   info |-> IF has_cursor THEN cursor_info ELSE None]]

\* process listener with nothing to receive: "unscheduled process call".
process_unscheduled ==
    /\ UNCHANGED <<bvars, svars, nvars, pvars, cvars, fvars, wvars, tvars, kvars, avars>>
    /\ last_process' = "unscheduled"
    /\ UNCHANGED <<seq, cursor_id, frames>>

\* process listener on a buffer whose user data is null: "buffer broken".
process_broken ==
    /\ UNCHANGED <<bvars, svars, nvars, pvars, cvars, fvars, wvars, tvars, kvars, avars>>
    /\ last_process' = "broken"
    /\ UNCHANGED <<seq, cursor_id, frames>>

\* process listener on a buffer with user data, with or without header and
\* cursor blocks; the buffer is queued to the transport.
process_buffer ==
    /\ UNCHANGED <<bvars, svars, nvars, pvars, cvars, fvars, wvars, tvars, kvars, avars>>
    /\ Len(frames) < MaxFrames
    /\ \E has_header \in BOOLEAN, has_cursor \in BOOLEAN,
          cursor_info \in {None} \cup {Some(i) : i \in CursorInfos} :
          LET r == stamp_buffer([seq |-> seq, cursor_id |-> cursor_id],
                                has_header, has_cursor, cursor_info)
          IN /\ seq' = r.data.seq
             /\ cursor_id' = r.data.cursor_id
             /\ frames' = Append(frames, r.frame)
    /\ last_process' = "processed"

MetaNext ==
    \/ process_unscheduled
    \/ process_broken
    \/ process_buffer

\* The process callbacks of one stream.
SpecMeta == Init /\ [][MetaNext]_vars

\* ---------------------------------------------------------------- RefCell borrows
\* The borrow()/borrow_mut() calls of the handlers and listener callbacks that
\* run on the loop thread, in program order.  A guard created as a temporary
\* lives to the end of its statement; a transport call may run listener
\* callbacks before it returns.

\* Nesting of calls on the loop thread.
MaxDepth == 5

\* RefCell::borrow_mut
borrow_mut(cell) == [op |-> "borrow", cell |-> cell, mut |-> TRUE]

\* RefCell::borrow_mut where the code has borrow.
borrow_as_mut(cell) == borrow_mut(cell)

\* RefCell::borrow
borrow(cell) == [op |-> "borrow", cell |-> cell, mut |-> FALSE]

\* End of the statement: its temporary guard is dropped.
release == [op |-> "release"]

\* A call into the transport that may run the listener callbacks cbs before
\* it returns and, where the code propagates its error with `?`, may fail.
transport(name, cbs, may_fail) ==
    [op |-> "transport", name |-> name, cbs |-> cbs, may_fail |-> may_fail]

\* A call of another function of the crate.
invoke(fn) == [op |-> "invoke", fn |-> fn]

\* A condition after which the function may return early.
branch == [op |-> "branch"]

\* A change of the stream's registration.
effect(life) == [op |-> "effect", life |-> life]

\* The listener callbacks that borrow, or may borrow, the stream's RefCell.
Callbacks == {"state_changed_paused", "state_changed_other", "param_changed"}

\* The statements of each function that touch a RefCell or call out.
Code(fn) ==
    CASE fn = "receive_create_stream" ->     \* client.rs:220-225
            << borrow_mut("client"), invoke("create_stream"), release >>
      [] fn = "receive_terminate" ->         \* client.rs:220-225
            << borrow_mut("client"), invoke("client_terminate"), release >>
      [] fn = "client_terminate" ->          \* client.rs:57-61
            << borrow("session"), effect("removed"), release >>
      [] fn = "create_stream" ->             \* client.rs:63-95
            << borrow("session"), release,
               borrow_mut("session"), release,
               borrow("session"), invoke("new"), release,
               borrow("session"), release,
               borrow_mut("session"), effect("live"), release >>
      [] fn = "new" ->                       \* stream.rs:667-782
            << borrow_mut("stream"), transport("register", {}, TRUE), effect("registered"), release,
               borrow("stream"), release,
               borrow("stream"), transport("connect", Callbacks, TRUE), release,
               borrow_mut("stream"), release >>
      [] fn = "terminate" ->                 \* stream.rs:328-333
            << borrow("stream"), transport("disconnect", Callbacks, FALSE), release,
               borrow_mut("stream"), invoke("on_terminate"), release >>
      [] fn = "on_terminate" ->              \* client.rs:71-79
            << borrow("session"), effect("removed"), release >>
      [] fn = "dequeue_buffer" ->            \* stream.rs:335-362
            << borrow("stream"), branch, transport("dequeue_raw_buffer", {}, FALSE), release >>
      [] fn = "queue_buffer_process" ->      \* stream.rs:364-375
            << borrow("stream"), release, branch,
               borrow("stream"), transport("send", {}, TRUE), release,
               borrow("stream"), transport("trigger_process", {}, TRUE), release >>
      [] fn = "state_changed_paused" ->      \* stream.rs:713-718
            << borrow("stream"), transport("flush", {}, FALSE), release >>
      [] fn = "state_changed_other" ->       \* stream.rs:719-722
            << >>
      [] fn = "param_changed" ->             \* stream.rs:727-738, 378-470
            << borrow("stream"), branch, transport("update_params", Callbacks, FALSE), release >>

\* A call that has just been entered.
Frame(fn) == [fn |-> fn, pc |-> 1, held |-> <<>>, err |-> FALSE]

Top == call_stack[Len(call_stack)]

\* The instruction the innermost call is at.
Running == call_stack # <<>> /\ ~borrow_panic /\ Top.pc <= Len(Code(Top.fn))
Instr == Code(Top.fn)[Top.pc]

\* The stack with the innermost frame replaced.
with_top(f) == [call_stack EXCEPT ![Len(call_stack)] = f]

\* The loop thread is between two callbacks.
Dispatching == call_stack = <<>> /\ ~borrow_panic

\* The callback attached in pw_thread receives a ClientMessage.
receive_client(kind) ==
    /\ UNCHANGED <<bvars, svars, nvars, pvars, cvars, fvars, mvars, tvars, kvars, avars>>
    /\ Dispatching
    /\ kind = "create_stream" => stream_life = "none"
    /\ call_stack' = << Frame(IF kind = "create_stream" THEN "receive_create_stream"
                                                        ELSE "receive_terminate") >>
    /\ UNCHANGED <<borrow_state, borrow_panic, stream_life, on_terminate_slot>>

\* The callback of StreamImpl::attach receives a StreamMessage and calls its
\* handler; the receiver is attached while the stream is in the registry.
receive_stream(handler) ==
    /\ UNCHANGED <<bvars, svars, nvars, pvars, cvars, fvars, mvars, tvars, kvars, avars>>
    /\ Dispatching
    /\ stream_life = "live"
    /\ call_stack' = << Frame(handler) >>
    /\ UNCHANGED <<borrow_state, borrow_panic, stream_life, on_terminate_slot>>

\* The loop runs a listener callback of the stream by itself.
listener_event(cb) ==
    /\ UNCHANGED <<bvars, svars, nvars, pvars, cvars, fvars, mvars, tvars, kvars, avars>>
    /\ Dispatching
    /\ stream_life \in {"live", "removed"}
    /\ call_stack' = << Frame(cb) >>
    /\ UNCHANGED <<borrow_state, borrow_panic, stream_life, on_terminate_slot>>

\* borrow() or borrow_mut(): panics when the cell is mutably borrowed, or,
\* for borrow_mut(), borrowed at all.
do_borrow ==
    /\ UNCHANGED <<bvars, svars, nvars, pvars, cvars, fvars, mvars, tvars, kvars, avars>>
    /\ Running /\ Instr.op = "borrow"
    /\ LET c == Instr.cell
           s == borrow_state[c]
           free == IF Instr.mut THEN s.shared = 0 /\ ~s.mut ELSE ~s.mut
       IN IF free
          THEN /\ borrow_state' = [borrow_state EXCEPT ![c] =
                      IF Instr.mut THEN [@ EXCEPT !.mut = TRUE]
                                   ELSE [@ EXCEPT !.shared = @ + 1]]
               /\ call_stack' = with_top([Top EXCEPT !.pc = @ + 1,
                                                     !.held = Append(@, Instr)])
               /\ UNCHANGED borrow_panic
          ELSE /\ borrow_panic' = TRUE
               /\ UNCHANGED <<borrow_state, call_stack>>
    /\ UNCHANGED <<stream_life, on_terminate_slot>>

\* The cells after the guards in held are dropped.
RECURSIVE dropped(_, _)
dropped(cells, held) ==
    IF held = <<>> THEN cells
    ELSE LET g == Head(held)
         IN dropped([cells EXCEPT ![g.cell] =
                        IF g.mut THEN [@ EXCEPT !.mut = FALSE]
                                 ELSE [@ EXCEPT !.shared = @ - 1]],
                    Tail(held))

\* The statement ends: the guard it created is dropped.
do_release ==
    /\ UNCHANGED <<bvars, svars, nvars, pvars, cvars, fvars, mvars, tvars, kvars, avars>>
    /\ Running /\ Instr.op = "release"
    /\ LET n == Len(Top.held)
       IN /\ borrow_state' = dropped(borrow_state, << Top.held[n] >>)
          /\ call_stack' = with_top([Top EXCEPT !.pc = @ + 1, !.held = SubSeq(@, 1, n - 1)])
    /\ UNCHANGED <<borrow_panic, stream_life, on_terminate_slot>>

\* The transport runs a listener callback from inside the call.
transport_calls_back(cb) ==
    /\ UNCHANGED <<bvars, svars, nvars, pvars, cvars, fvars, mvars, tvars, kvars, avars>>
    /\ Running /\ Instr.op = "transport"
    /\ cb \in Instr.cbs
    /\ Len(call_stack) < MaxDepth
    /\ call_stack' = Append(call_stack, Frame(cb))
    /\ UNCHANGED <<borrow_state, borrow_panic, stream_life, on_terminate_slot>>

\* The transport call returns.
transport_returns ==
    /\ UNCHANGED <<bvars, svars, nvars, pvars, cvars, fvars, mvars, tvars, kvars, avars>>
    /\ Running /\ Instr.op = "transport"
    /\ call_stack' = with_top([Top EXCEPT !.pc = @ + 1])
    /\ UNCHANGED <<borrow_state, borrow_panic, stream_life, on_terminate_slot>>

\* The transport call fails and `?` returns the error.
transport_fails ==
    /\ UNCHANGED <<bvars, svars, nvars, pvars, cvars, fvars, mvars, tvars, kvars, avars>>
    /\ Running /\ Instr.op = "transport" /\ Instr.may_fail
    /\ call_stack' = with_top([Top EXCEPT !.pc = Len(Code(Top.fn)) + 1, !.err = TRUE])
    /\ UNCHANGED <<borrow_state, borrow_panic, stream_life, on_terminate_slot>>

\* A function of the crate is called; on_terminate is taken out of its slot
\* and called only if it was there.
do_invoke ==
    /\ UNCHANGED <<bvars, svars, nvars, pvars, cvars, fvars, mvars, tvars, kvars, avars>>
    /\ Running /\ Instr.op = "invoke"
    /\ LET next == with_top([Top EXCEPT !.pc = @ + 1])
       IN IF Instr.fn = "on_terminate"
          THEN /\ on_terminate_slot' = FALSE
               /\ call_stack' = IF on_terminate_slot THEN Append(next, Frame("on_terminate"))
                                                     ELSE next
          ELSE /\ call_stack' = Append(next, Frame(Instr.fn))
               /\ UNCHANGED on_terminate_slot
    /\ UNCHANGED <<borrow_state, borrow_panic, stream_life>>

\* A condition is passed, or the function returns early.
do_branch ==
    /\ UNCHANGED <<bvars, svars, nvars, pvars, cvars, fvars, mvars, tvars, kvars, avars>>
    /\ Running /\ Instr.op = "branch"
    /\ \/ call_stack' = with_top([Top EXCEPT !.pc = @ + 1])
       \/ call_stack' = with_top([Top EXCEPT !.pc = Len(Code(Top.fn)) + 1])
    /\ UNCHANGED <<borrow_state, borrow_panic, stream_life, on_terminate_slot>>

\* The listener is registered, the stream is inserted into the registry
\* (with its on_terminate in place), or it is taken out of it.
do_effect ==
    /\ UNCHANGED <<bvars, svars, nvars, pvars, cvars, fvars, mvars, tvars, kvars, avars>>
    /\ Running /\ Instr.op = "effect"
    /\ stream_life' = IF Instr.life = "removed" /\ stream_life # "live" THEN stream_life
                      ELSE Instr.life
    /\ on_terminate_slot' = IF Instr.life = "live" THEN TRUE ELSE on_terminate_slot
    /\ call_stack' = with_top([Top EXCEPT !.pc = @ + 1])
    /\ UNCHANGED <<borrow_state, borrow_panic>>

\* The innermost call returns: the guards it still holds are dropped; an
\* error of StreamImpl::new makes create_stream return as well.
do_return ==
    /\ UNCHANGED <<bvars, svars, nvars, pvars, cvars, fvars, mvars, tvars, kvars, avars>>
    /\ call_stack # <<>> /\ ~borrow_panic /\ Top.pc > Len(Code(Top.fn))
    /\ borrow_state' = dropped(borrow_state, Top.held)
    /\ LET rest == SubSeq(call_stack, 1, Len(call_stack) - 1)
       IN call_stack' =
            IF Top.fn = "new" /\ Top.err
            THEN [rest EXCEPT ![Len(rest)] =
                    [@ EXCEPT !.pc = Len(Code("create_stream")) + 1, !.err = TRUE]]
            ELSE rest
    /\ stream_life' = IF Top.fn = "new" /\ Top.err THEN "none" ELSE stream_life
    /\ UNCHANGED <<borrow_panic, on_terminate_slot>>

BorrowNext ==
    \/ \E kind \in {"create_stream", "terminate"} : receive_client(kind)
    \/ \E handler \in {"terminate", "dequeue_buffer", "queue_buffer_process"} :
          receive_stream(handler)
    \/ \E cb \in Callbacks : listener_event(cb)
    \/ do_borrow
    \/ do_release
    \/ \E cb \in Callbacks : transport_calls_back(cb)
    \/ transport_returns
    \/ transport_fails
    \/ do_invoke
    \/ do_branch
    \/ do_effect
    \/ do_return

\* The loop thread's callbacks and the RefCells they borrow.
SpecBorrow == Init /\ [][BorrowNext]_vars

\* ---------------------------------------------------------------- GL export textures
\* on_add_buffer and on_remove_buffer of the GL backend, both called by the
\* stream's listener on the loop thread.

\* A pop_front that leaves the queue as it is.
pop_keep(q) == [value |-> <<Head(q)>>, rest |-> q]

\* VecDeque::pop_front: None on an empty queue.
pop_front(q) ==
    IF q = <<>> THEN [value |-> <<>>, rest |-> q]
    ELSE [value |-> <<Head(q)>>, rest |-> Tail(q)]

\* on_add_buffer: with the surface and its capture found, the front of
\* free_textures is popped and inserted into mapped_textures; every failure
\* returns an error before anything is changed.
gl_on_add_buffer(found) ==
    /\ UNCHANGED <<bvars, svars, nvars, pvars, cvars, fvars, mvars, wvars, kvars, avars>>
    /\ LET popped == IF found /\ free_textures # <<>> THEN pop_front(free_textures)
                     ELSE [value |-> <<>>, rest |-> free_textures]
       IN IF popped.value = <<>>
          THEN /\ gl_event' = [kind |-> "add_buffer", found |-> found, ok |-> FALSE,
                               texture |-> 0]
               /\ UNCHANGED <<free_textures, mapped_textures>>
          ELSE /\ free_textures' = popped.rest
               /\ mapped_textures' = mapped_textures \cup {popped.value[1]}
               /\ gl_event' = [kind |-> "add_buffer", found |-> found, ok |-> TRUE,
                               texture |-> popped.value[1]]

\* on_remove_buffer for the texture of the user handle: with the surface and
\* its capture found, the texture is removed from mapped_textures and pushed
\* to the back of free_textures; a texture that is not mapped is an error.
gl_on_remove_buffer(found, texture) ==
    /\ UNCHANGED <<bvars, svars, nvars, pvars, cvars, fvars, mvars, wvars, kvars, avars>>
    /\ IF found /\ texture \in mapped_textures
       THEN /\ mapped_textures' = mapped_textures \ {texture}
            /\ free_textures' = Append(free_textures, texture)
            /\ gl_event' = [kind |-> "remove_buffer", found |-> found, ok |-> TRUE,
                            texture |-> texture]
       ELSE /\ gl_event' = [kind |-> "remove_buffer", found |-> found, ok |-> FALSE,
                            texture |-> texture]
            /\ UNCHANGED <<free_textures, mapped_textures>>

TexturesNext ==
    \/ \E found \in BOOLEAN : gl_on_add_buffer(found)
    \/ \E found \in BOOLEAN, texture \in 0..NumTextures : gl_on_remove_buffer(found, texture)

\* The buffer callbacks of one GL capture.
SpecTextures == Init /\ [][TexturesNext]_vars

\* ---------------------------------------------------------------- Vulkan format table

\* finfo!(fmt, vk_fmt, ts): the entry for vk::Format::<vk_fmt>_<ts>.
finfo(fmt, vk_fmt, ts) ==
    [format |-> fmt, transfer |-> ts, vk_format |-> <<vk_fmt, ts>>]

\* finfo!(fmt, vk_fmt, ts, _PACK32): the entry for vk::Format::<vk_fmt>_<ts>_PACK32.
finfo_pack(fmt, vk_fmt, ts, pack) ==
    [format |-> fmt, transfer |-> ts, vk_format |-> <<vk_fmt, ts, pack>>]

VK_FORMAT_INFO_TABLE ==
    << finfo("BGRA", "B8G8R8A8", "SINT"),
       finfo("BGRA", "B8G8R8A8", "SNORM"),
       finfo("BGRA", "B8G8R8A8", "SRGB"),
       finfo("BGRA", "B8G8R8A8", "SSCALED"),
       finfo("BGRA", "B8G8R8A8", "UINT"),
       finfo("BGRA", "B8G8R8A8", "UNORM"),
       finfo("BGRA", "B8G8R8A8", "USCALED"),
       finfo("RGBA", "R8G8B8A8", "SINT"),
       finfo("RGBA", "R8G8B8A8", "SNORM"),
       finfo("RGBA", "R8G8B8A8", "SRGB"),
       finfo("RGBA", "R8G8B8A8", "SSCALED"),
       finfo("RGBA", "R8G8B8A8", "UINT"),
       finfo("RGBA", "R8G8B8A8", "UNORM"),
       finfo("RGBA", "R8G8B8A8", "USCALED"),
       finfo("BGR", "B8G8R8", "SINT"),
       finfo("BGR", "B8G8R8", "SNORM"),
       finfo("BGR", "B8G8R8", "SRGB"),
       finfo("BGR", "B8G8R8", "SSCALED"),
       finfo("BGR", "B8G8R8", "UINT"),
       finfo("BGR", "B8G8R8", "UNORM"),
       finfo("BGR", "B8G8R8", "USCALED"),
       finfo("RGB", "R8G8B8", "SINT"),
       finfo("RGB", "R8G8B8", "SNORM"),
       finfo("RGB", "R8G8B8", "SRGB"),
       finfo("RGB", "R8G8B8", "SSCALED"),
       finfo("RGB", "R8G8B8", "UINT"),
       finfo("RGB", "R8G8B8", "UNORM"),
       finfo("RGB", "R8G8B8", "USCALED"),
       finfo_pack("RGBA_102LE", "A2B10G10R10", "SINT", "PACK32"),
       finfo_pack("RGBA_102LE", "A2B10G10R10", "SNORM", "PACK32"),
       finfo_pack("RGBA_102LE", "A2B10G10R10", "SSCALED", "PACK32"),
       finfo_pack("RGBA_102LE", "A2B10G10R10", "UINT", "PACK32"),
       finfo_pack("RGBA_102LE", "A2B10G10R10", "UNORM", "PACK32"),
       finfo_pack("RGBA_102LE", "A2B10G10R10", "USCALED", "PACK32"),
       finfo_pack("RGBA_102LE", "A2R10G10B10", "SINT", "PACK32"),
       finfo_pack("RGBA_102LE", "A2R10G10B10", "SNORM", "PACK32"),
       finfo_pack("RGBA_102LE", "A2R10G10B10", "SSCALED", "PACK32"),
       finfo_pack("RGBA_102LE", "A2R10G10B10", "UINT", "PACK32"),
       finfo_pack("RGBA_102LE", "A2R10G10B10", "UNORM", "PACK32"),
       finfo_pack("RGBA_102LE", "A2R10G10B10", "USCALED", "PACK32"),
       finfo("GRAY16_LE", "R16", "SINT"),
       finfo("GRAY16_LE", "R16", "SNORM"),
       finfo("GRAY16_LE", "R16", "SSCALED"),
       finfo("GRAY16_LE", "R16", "UINT"),
       finfo("GRAY16_LE", "R16", "UNORM"),
       finfo("GRAY16_LE", "R16", "USCALED"),
       finfo("GRAY16_BE", "R16", "SINT"),
       finfo("GRAY16_BE", "R16", "SNORM"),
       finfo("GRAY16_BE", "R16", "SSCALED"),
       finfo("GRAY16_BE", "R16", "UINT"),
       finfo("GRAY16_BE", "R16", "UNORM"),
       finfo("GRAY16_BE", "R16", "USCALED"),
       finfo("GRAY8", "R8", "SINT"),
       finfo("GRAY8", "R8", "SNORM"),
       finfo("GRAY8", "R8", "SRGB"),
       finfo("GRAY8", "R8", "SSCALED"),
       finfo("GRAY8", "R8", "UINT"),
       finfo("GRAY8", "R8", "UNORM"),
       finfo("GRAY8", "R8", "USCALED") >>

\* format_name.contains("_<ts>"): a part of the name after the first is ts.
contains(format_name, ts) ==
    \E i \in 2..Len(format_name) : format_name[i] = ts

vk_format_get_transfer(vk_format) ==
    IF contains(vk_format, "SRGB") THEN "SRGB"
    ELSE IF contains(vk_format, "UNORM") THEN "UNORM"
    ELSE IF contains(vk_format, "UINT") THEN "UINT"
    ELSE IF contains(vk_format, "USCALED") THEN "USCALED"
    ELSE IF contains(vk_format, "SNORM") THEN "SNORM"
    ELSE IF contains(vk_format, "SINT") THEN "SINT"
    ELSE IF contains(vk_format, "SSCALED") THEN "SSCALED"
    ELSE "UNKNOWN"

\* The first entry of the table whose index is in hits.
first_entry(hits) ==
    VK_FORMAT_INFO_TABLE[CHOOSE i \in hits : \A j \in hits : i <= j]

vk_format_get_info(vk_format) ==
    LET hits == {i \in 1..Len(VK_FORMAT_INFO_TABLE) :
                    VK_FORMAT_INFO_TABLE[i].vk_format = vk_format}
    IN IF hits # {} THEN first_entry(hits)
       ELSE [format |-> "UNKNOWN", transfer |-> vk_format_get_transfer(vk_format),
             vk_format |-> vk_format]

client_format_get_info(format, transfer) ==
    LET hits == {i \in 1..Len(VK_FORMAT_INFO_TABLE) :
                    /\ VK_FORMAT_INFO_TABLE[i].format = format
                    /\ VK_FORMAT_INFO_TABLE[i].transfer = transfer}
    IN IF hits # {} THEN first_entry(hits)
       ELSE [format |-> format, transfer |-> transfer, vk_format |-> <<"UNDEFINED">>]

\* The vk::Format values of the table and some that are not in it.
VkFormats ==
    {VK_FORMAT_INFO_TABLE[i].vk_format : i \in 1..Len(VK_FORMAT_INFO_TABLE)}
    \cup { <<"UNDEFINED">>, <<"R32", "SFLOAT">>, <<"R16G16", "UNORM">>,
           <<"D16", "UNORM", "S8", "UINT">>, <<"BC1", "RGB", "SRGB", "BLOCK">>,
           <<"G12X4", "B12X4", "R12X4", "3PLANE", "420", "UNORM", "3PACK16">> }

\* The Format values of the table and some that are not in it.
TableFormats ==
    {VK_FORMAT_INFO_TABLE[i].format : i \in 1..Len(VK_FORMAT_INFO_TABLE)}
    \cup {"UNKNOWN", "BGRA_102LE", "NV12"}

Transfers == {"UNKNOWN", "SRGB", "UNORM", "SNORM", "UINT", "SINT", "USCALED", "SSCALED",
              "UFLOAT", "SFLOAT"}

\* The calls whose results are looked at.
VkQueries ==
    {VkQuery("vk_format_get_transfer", v, "UNKNOWN", "UNKNOWN") : v \in VkFormats}
    \cup {VkQuery("vk_format_get_info", v, "UNKNOWN", "UNKNOWN") : v \in VkFormats}
    \cup {VkQuery("client_format_get_info", <<"UNDEFINED">>, f, t) :
             f \in TableFormats, t \in Transfers}

get_transfer ==
    /\ UNCHANGED <<bvars, svars, nvars, pvars, cvars, fvars, mvars, wvars, tvars, avars>>
    /\ vk_query.fn = "vk_format_get_transfer" /\ vk_result = <<>>
    /\ vk_result' = << [format |-> "UNKNOWN",
                        transfer |-> vk_format_get_transfer(vk_query.vk_format),
                        vk_format |-> vk_query.vk_format] >>
    /\ UNCHANGED vk_query

get_info ==
    /\ UNCHANGED <<bvars, svars, nvars, pvars, cvars, fvars, mvars, wvars, tvars, avars>>
    /\ vk_query.fn = "vk_format_get_info" /\ vk_result = <<>>
    /\ vk_result' = << vk_format_get_info(vk_query.vk_format) >>
    /\ UNCHANGED vk_query

client_get_info ==
    /\ UNCHANGED <<bvars, svars, nvars, pvars, cvars, fvars, mvars, wvars, tvars, avars>>
    /\ vk_query.fn = "client_format_get_info" /\ vk_result = <<>>
    /\ vk_result' = << client_format_get_info(vk_query.format, vk_query.transfer) >>
    /\ UNCHANGED vk_query

VkFormatNext ==
    \/ get_transfer
    \/ get_info
    \/ client_get_info

VkFormatSpecInit ==
    /\ StreamInit /\ SessionInit /\ StreamParamsInit(DefaultOffer, MAX_BUFFERS)
    /\ PoolInit(1) /\ ConstructInit /\ FormatInit(0) /\ Y3Init
    /\ AppNameInit(<<>>, <<>>)
    /\ \E q \in VkQueries : VkFormatInit(q)

\* One look-up in the Vulkan format table.
SpecVkFormat == VkFormatSpecInit /\ [][VkFormatNext]_vars

\* ---------------------------------------------------------------- application name

\* Longest command name in characters (the kernel allows 15).
MaxCommLen == 2

\* What /proc/self/exe may link to, as path components: an ordinary
\* executable, the two wine preloaders, the root, and a path ending in "..".
ExePaths == { <<"usr", "bin", "game">>, <<"opt", "wine", "wine-preloader">>,
              <<"opt", "wine", "wine64-preloader">>, <<>>, <<"usr", "..">> }

\* Command names of up to MaxCommLen characters, the empty one included.
CommNames == UNION {[1..n -> {"a", "b"}] : n \in 0..MaxCommLen}

\* What /proc/self/comm holds: the command name and a newline.
CommContents == {name \o <<"LF">> : name \in CommNames}

\* Path::file_name: the last component, None for the root or a path that
\* ends in "..".
file_name(path) ==
    IF path = <<>> \/ path[Len(path)] = ".." THEN None
    ELSE Some(<< path[Len(path)] >>)

\* get_program_name: the base name of the executable, if the link can be read.
get_program_name(exe) ==
    IF exe = None THEN None ELSE file_name(exe[1])

\* String::pop: the string without its last character.
pop(f) == IF f = <<>> THEN f ELSE SubSeq(f, 1, Len(f) - 1)

\* get_command_name: the contents of /proc/self/comm without the last
\* character, if the file can be read.
get_command_name(comm) ==
    IF comm = None THEN None ELSE Some(pop(comm[1]))

Option_unwrap_or(opt, default) == IF opt = None THEN default ELSE opt[1]

\* get_app_name: get_program_name is called.
app_get_program_name ==
    /\ UNCHANGED <<bvars, svars, nvars, pvars, cvars, fvars, mvars, wvars, tvars, kvars>>
    /\ app_pc = "start"
    /\ program_name' = get_program_name(proc_exe)
    /\ app_pc' = "program"
    /\ UNCHANGED <<proc_exe, proc_comm, app_name>>

\* get_app_name: a program name other than the wine preloaders is returned.
app_return_program_name ==
    /\ UNCHANGED <<bvars, svars, nvars, pvars, cvars, fvars, mvars, wvars, tvars, kvars>>
    /\ app_pc = "program"
    /\ program_name # None
    /\ program_name[1] \notin {<<"wine-preloader">>, <<"wine64-preloader">>}
    /\ app_name' = program_name[1]
    /\ app_pc' = "done"
    /\ UNCHANGED <<proc_exe, proc_comm, program_name>>

\* get_app_name: otherwise the command name, or "unknown" without one.
app_get_command_name ==
    /\ UNCHANGED <<bvars, svars, nvars, pvars, cvars, fvars, mvars, wvars, tvars, kvars>>
    /\ app_pc = "program"
    /\ \/ program_name = None
       \/ program_name # None
          /\ program_name[1] \in {<<"wine-preloader">>, <<"wine64-preloader">>}
    /\ app_name' = Option_unwrap_or(get_command_name(proc_comm), <<"unknown">>)
    /\ app_pc' = "done"
    /\ UNCHANGED <<proc_exe, proc_comm, program_name>>

AppNameNext ==
    \/ app_get_program_name
    \/ app_return_program_name
    \/ app_get_command_name

AppNameSpecInit ==
    /\ StreamInit /\ SessionInit /\ StreamParamsInit(DefaultOffer, MAX_BUFFERS)
    /\ PoolInit(1) /\ ConstructInit /\ FormatInit(0) /\ Y4Init
    /\ \E exe \in {None} \cup {Some(e) : e \in ExePaths},
          comm \in {None} \cup {Some(c) : c \in CommContents} : AppNameInit(exe, comm)

\* One call of get_app_name.
SpecAppName == AppNameSpecInit /\ [][AppNameNext]_vars

\* The last event was a format proposal that reached fixate_format.
FixateRound == last_event.kind = "param_changed" /\ calls_fixate(last_event.pod)

\* The last event was a format proposal that ended with build_stream_params:
\* fixate_format answered and the proposal had no modifier list or one that
\* was not flagged don't-fixate.
FinalRound ==
    /\ FixateRound /\ last_event.reply # None /\ ~listener_panic
    /\ ~(last_event.pod.modifiers # <<>> /\ last_event.pod.dont_fixate)

\* The messages posted to a stream and not yet handled, oldest first: those
\* the running drain still has to handle, then those waiting in the queue.
Pending(id) == (IF sbatch.sid = id THEN sbatch.msgs ELSE <<>>) \o sq[id]

\* ---------------------------------------------------------------- steps of the handlers

\* A step of the queue_buffer_process handler: it returns to the caller or
\* starts to wait in Sender::send, or the waiting send completes.
QueueStep == cpc = "queue_wait" /\ (cpc' # cpc \/ loop_pc' # loop_pc)

\* A step of the dequeue_buffer handler.
DequeueStep == cpc = "dequeue_wait" /\ cpc' # cpc

\* A step of the process listener that took a handle from the channel.
ProcessStep == chan # <<>> /\ chan' = Tail(chan) /\ state' = state

\* ---------------------------------------------------------------- claims C1..C6

(* C1: the hand-off queue never holds more than MAX_PROCESS_BUFFERS = 4
   handles, and a queue_buffer_process never drops or overwrites a handle
   that is already queued: it leaves the queue as it is or appends its own
   handle. *)
C1_QueueBounded ==
    /\ [](Len(chan) <= MAX_PROCESS_BUFFERS)
    /\ [][QueueStep => (chan' = chan \/ chan' = Append(chan, cbuf))]_vars

\* The queue is full and a further queue_buffer_process has been handled.
C1_Witness == Len(chan) = MAX_PROCESS_BUFFERS /\ loop_pc = "send"

(* C2: a queue_buffer_process handled while the queue holds 4 handles (the
   stream being ready) returns an error to the caller at once: the queue is
   unchanged and the main loop does not wait for room. *)
C2_FullQueueReturnsError ==
    [][(QueueStep /\ loop_pc = "idle" /\ driving /\ Len(chan) = MAX_PROCESS_BUFFERS)
        => (cpc' = "idle" /\ qret' = "Err" /\ chan' = chan /\ loop_pc' = "idle")]_vars

(* C3: a dequeue_buffer that returns a handle returns one of a buffer that is
   in the transport's pool (added, not removed) with its user handle set; a
   transport buffer without user handle yields None and the caller keeps no
   handle. *)
C3_DequeueValid ==
    [][DequeueStep =>
        /\ cpc' = "copy" => /\ cbuf' \in 1..n_buffers
                            /\ loc[cbuf'] = "pool"
                            /\ user_data[cbuf'] = "set"
        /\ cpc' = "idle" => cbuf' = 0 /\ loc' = loc]_vars

\* A dequeue returned a handle while the pool holds a buffer without user handle.
C3_Witness ==
    /\ cpc = "copy" /\ cbuf # 0
    /\ \E b \in 1..n_buffers : user_data[b] = "null" /\ loc[b] = "pool"

(* C4: every handle that enters the hand-off queue is the handle the caller
   was given by its last dequeue_buffer, it enters once, and the call uses up
   the caller's handle: the same handle is not queued again before a
   dequeue_buffer returns it again. *)
C4_QueuedOncePerDequeue ==
    [][Len(chan') > Len(chan) =>
        /\ cbuf # 0
        /\ chan' = Append(chan, cbuf)
        /\ cbuf' = 0]_vars

\* A handle is queued for processing and the caller has dequeued again.
C4_Witness == chan # <<>> /\ cpc = "copy" /\ cbuf # 0

(* C5: the backend's process_buffer is invoked only for a buffer that has
   been added and not yet removed. *)
C5_ProcessOnlyLiveBuffers ==
    [][(ProcessStep /\ user_data[Head(chan)] # "null")
        => (Head(chan) <= n_buffers /\ user_data[Head(chan)] = "set")]_vars

(* C6: a change to Paused discards every queued handle without processing
   it, and when the stream returns to Streaming the hand-off queue is empty
   (no handle queued around the pause survives into the resumed stream). *)
C6_ResumeWithEmptyQueue ==
    [][/\ (state # "Paused" /\ state' = "Paused") => (chan' = <<>> /\ loc' = loc)
       /\ (state # "Streaming" /\ state' = "Streaming") => chan' = <<>>]_vars

\* ---------------------------------------------------------------- claims C7..C10

(* C7 (as the code has it): the on_terminate callback of a stream runs at
   most once however many terminate messages are handled, and it has run
   exactly once as soon as one terminate of the stream has been handled. *)
C7_OnTerminateAtMostOnce ==
    \A id \in StreamIds :
        /\ term_calls[id] <= 1
        /\ sstate[id] = "Unconnected" => term_calls[id] = 1

\* Two terminate calls on one stream have both returned; the callback ran once.
C7_Witness ==
    \E id \in StreamIds :
        /\ term_calls[id] = 1
        /\ \A c \in Callers :
                /\ treq[c].kind = "terminate" /\ treq[c].sid = id
                /\ tpc[c] = "idle" /\ tres[c] = "Ok"

(* C7 (as stated): once a terminate has been requested for a stream its
   on_terminate callback runs exactly once; here: never twice, and once by
   the time the loop has exited. *)
C7_ExactlyOnceIfRequested ==
    \A id \in term_req :
        /\ term_calls[id] <= 1
        /\ loop_state = "exited" => term_calls[id] = 1

(* C8: a terminate posted on a stream that is already terminated is a no-op
   for the caller: the caller is not left blocked, and once it is back the
   call has returned Ok. *)
C8_TerminateAgainIsNoOp ==
    \A c \in Callers :
        (treq[c].kind = "terminate" /\ treq[c].after = "stream_terminated")
            => /\ ~Parked(c)
               /\ tpc[c] = "idle" => tres[c] = "Ok"

(* C9: a stream call posted after the stream's registry entry is gone is not
   performed and fails cleanly: the caller is never left blocked, and once
   it is back the call has returned an error. *)
C9_CallAfterTeardownFails ==
    \A c \in Callers :
        (treq[c].sid \in StreamIds /\ treq[c].after # "live")
            => /\ ~Parked(c)
               /\ tpc[c] = "idle" => tres[c] = "Err"

(* C10: a create_stream posted after the session's terminate was requested
   fails cleanly: the caller is never left blocked and never receives a
   Stream. *)
C10_CreateAfterTerminateFails ==
    \A c \in Callers :
        (treq[c].kind = "create_stream" /\ treq[c].after = "session_terminated")
            => /\ ~Parked(c)
               /\ tres[c] # "Stream"

\* ---------------------------------------------------------------- claims C11..C20

(* C11 (as the code has it): dropping the Client handle is synchronous: when
   the drop has returned, the loop thread has left its event loop and has
   been joined. *)
C11_DropJoinsLoop ==
    \A c \in Callers : tpc[c] = "joined" => loop_state = "exited"

\* A thread has dropped the Client and the drop has returned.
C11_Witness == \E c \in Callers : tpc[c] = "joined" /\ tres[c] = "Joined"

(* C11 (as stated): whenever a session termination request, explicit through
   the proxy or by dropping the Client, has returned to its caller, the loop
   thread has left its event loop. *)
C11_TerminateIsSynchronous ==
    (c_terms > 0 /\ \A c \in Callers : tpc[c] # "join") => loop_state = "exited"

(* C12: the messages posted to one stream are executed in the order they
   were posted, each at most once: a post puts its message behind all
   pending ones, the loop thread only ever takes the oldest pending message,
   and the message taken leaves the pending ones and its result goes to the
   caller that posted it. *)
C12_FifoPerStream ==
    [][\A id \in StreamIds :
        \/ Pending(id)' = Pending(id)
        \/ \E c \in Callers, k \in {"terminate", "dequeue_buffer"} :
                /\ tpc[c] = "idle" /\ tpc'[c] = "wait"
                /\ Pending(id)' = Append(Pending(id), Msg(k, c))
        \/ /\ Pending(id) # <<>>
           /\ Pending(id)' = Tail(Pending(id))
           /\ sbatch.sid = id
           /\ panicked' \/ (tpc[Head(Pending(id)).from] = "wait"
                            /\ tpc'[Head(Pending(id)).from] = "idle")]_vars

\* Two messages of one stream were drained together; the first has been
\* handled and has returned to its caller, the second is about to be.
C12_Witness ==
    \E id \in StreamIds, c, d \in Callers :
        /\ c # d
        /\ sbatch.sid = id /\ Len(sbatch.msgs) = 1 /\ sbatch.msgs[1].from = d
        /\ treq[c].sid = id /\ treq[d].sid = id
        /\ tpc[c] = "idle" /\ tres[c] # "none" /\ tpc[d] = "wait"

(* C13: the loop thread never blocks inside a message handler: whenever a
   handler has been entered it runs to its reply without waiting on any
   queue, so a call posted to a live stream is answered. *)
C13_LoopNeverBlocksInHandler == loop_pc # "send"

(* C14: a dequeue_buffer handled while the transport does not report both
   the Streaming state and the driving role returns None and takes no buffer
   from the transport; a buffer is returned only when both hold. *)
C14_DequeueGated ==
    [][DequeueStep =>
        /\ (state # "Streaming" \/ ~driving) => (cpc' = "idle" /\ cbuf' = 0 /\ loc' = loc)
        /\ cpc' = "copy" => (state = "Streaming" /\ driving /\ loc'[cbuf'] = "app")]_vars

\* A dequeue_buffer is being handled while the stream is Streaming but not
\* driving, and the transport has a buffer it could hand out.
C14_Witness ==
    /\ cpc = "dequeue_wait" /\ loop_pc = "idle"
    /\ state = "Streaming" /\ ~driving
    /\ \E b \in 1..n_buffers : loc[b] = "pool" /\ user_data[b] = "set"

(* C15: queue_buffer_process puts its handle into the hand-off queue only
   while the transport reports both the driving role and the Streaming
   state; handled in any other state it leaves the queue unchanged. *)
C15_QueueGated ==
    [][(QueueStep /\ loop_pc = "idle" /\ (state # "Streaming" \/ ~driving))
        => (chan' = chan /\ loop_pc' = "idle" /\ cpc' = "idle")]_vars

(* C16: one invocation of the process callback removes exactly one handle,
   the oldest, from the hand-off queue and processes only that handle: only
   that buffer can change owner and process_buffer is invoked for no other.
   With the queue empty the invocation removes nothing, invokes no
   process_buffer and queues nothing to the transport. *)
C16_ProcessPopsOne ==
    LET r == process_once(chan, loc)
    IN IF chan = <<>>
       THEN r.chan = chan /\ r.loc = loc /\ r.invoked = <<>>
       ELSE /\ r.chan = Tail(chan)
            /\ \A b \in Slots : b # Head(chan) => r.loc[b] = loc[b]
            /\ r.invoked \in {<<>>, <<Head(chan)>>}

\* The process callback is about to run with two handles queued, the oldest
\* one of a buffer the application holds.
C16_Witness ==
    /\ state = "Streaming" /\ Len(chan) >= 2
    /\ chan[1] # chan[2]
    /\ loc[chan[1]] = "app" /\ loc[chan[2]] = "app"

(* C17 (as the code has it): on a proposal without modifier list the
   negotiator calls fixate_format exactly once, with formats = [the proposed
   format] and modifiers = []; on a FixateFormat{modifier: None, num_planes: n}
   reply it publishes the buffer and meta parameters with blocks = max(n, 1)
   and the shared-memory (MemFd) data type, and no format parameter. *)
C17_NoModifierRound ==
    (FixateRound /\ last_event.pod.modifiers = <<>>) =>
        /\ fixate_calls = << [formats |-> <<last_event.pod.format_ids[1]>>, modifiers |-> <<>>] >>
        /\ \A n \in 0..MaxPlanes :
            last_event.reply = Some([modifier |-> None, num_planes |-> n]) =>
                /\ Len(published) = 3
                /\ published[1].obj = "ParamBuffers"
                /\ published[1].blocks = (IF n = 0 THEN 1 ELSE n)
                /\ published[1].dataType = "MemFd"
                /\ published[2].obj = "ParamMeta" /\ published[3].obj = "ParamMeta"

\* The offer is [A, B] without modifiers, A was proposed, and the reply
\* FixateFormat{modifier: None, num_planes: 1} has been published as blocks = 1.
C17_Witness ==
    /\ enum_formats = << [formats |-> <<"A", "B">>, modifiers |-> <<>>] >>
    /\ FixateRound
    /\ last_event.pod.format_ids = <<"A">> /\ last_event.pod.modifiers = <<>>
    /\ last_event.reply = Some([modifier |-> None, num_planes |-> 1])
    /\ buffers_negotiated /\ published[1].blocks = 1

(* C17 (as stated): on a FixateFormat{modifier: None, num_planes: n} reply to
   a proposal without modifier list the published buffer parameter has
   blocks = n. *)
C17_BlocksEqualPlanes ==
    (FixateRound /\ last_event.pod.modifiers = <<>>) =>
        \A n \in 0..MaxPlanes :
            last_event.reply = Some([modifier |-> None, num_planes |-> n]) =>
                (buffers_negotiated /\ published[1].blocks = n)

(* C18: on a proposal whose modifier list is flagged don't-fixate, with
   fixate_format choosing modifier m, the negotiator republishes a format
   list: first the proposed format pinned to the single mandatory modifier m,
   then every offered (formats, modifiers) alternative in the offer's order,
   unfixed (first modifier preferred, all modifiers as alternatives, flagged
   don't-fixate).  No buffer parameter is published in that round. *)
C18_DeferredFixation ==
    (/\ FixateRound
     /\ last_event.pod.modifiers # <<>> /\ last_event.pod.dont_fixate
     /\ last_event.reply # None /\ last_event.reply[1].modifier # None)
    => /\ Len(published) = 1 + Len(enum_formats)
       /\ published[1].obj = "Format"
       /\ published[1].format.kind = "Id"
       /\ published[1].format.default = last_event.pod.format_ids[1]
       /\ published[1].modifier.kind = "Long"
       /\ published[1].modifier.flags = {"MANDATORY"}
       /\ published[1].modifier.default = last_event.reply[1].modifier[1]
       /\ \A i \in 1..Len(enum_formats) :
            LET e == enum_formats[i]
                q == published[i + 1]
            IN /\ q.obj = "Format"
               /\ q.format.default = e.formats[1]
               /\ Len(e.formats) > 1 => q.format.alternatives = e.formats
               /\ IF e.modifiers = <<>> THEN q.modifier.kind = "absent"
                  ELSE /\ q.modifier.kind = "Enum"
                       /\ "DONT_FIXATE" \in q.modifier.flags
                       /\ q.modifier.default = e.modifiers[1]
                       /\ q.modifier.alternatives = e.modifiers
       /\ ~buffers_negotiated

\* The offer is A with modifiers [7, 3] and a second, different alternative;
\* A was proposed with an unfixed modifier choice, fixate_format chose 7, and
\* the format list has been republished.
C18_Witness ==
    /\ Len(enum_formats) = 2 /\ enum_formats[1] # enum_formats[2]
    /\ enum_formats[1] = [formats |-> <<"A">>, modifiers |-> <<7, 3>>]
    /\ FixateRound
    /\ last_event.pod.format_ids = <<"A">>
    /\ last_event.pod.modifiers = <<7, 3>> /\ last_event.pod.dont_fixate
    /\ last_event.reply = Some([modifier |-> Some(7), num_planes |-> 1])
    /\ published[1].modifier.default = 7

(* C19: when fixate_format reports the proposal as incompatible (None), or
   the payload is not a format proposal that can be parsed, the negotiator
   publishes nothing: the published parameters and all other stream state
   stay as they were and the callback returns normally. *)
C19_DeadEndPublishesNothing ==
    [][(/\ last_event'.kind = "param_changed"
        /\ last_event'.reply = None
        /\ <<published, fixate_calls, last_event>>' # <<published, fixate_calls, last_event>>)
       => (/\ published' = published
           /\ ~listener_panic'
           /\ UNCHANGED <<enum_formats, max_buffers, bvars, svars>>)]_vars

\* Buffer parameters had been published, then a parsable proposal was
\* answered by fixate_format with None: the buffer parameters still stand.
C19_Witness ==
    /\ FixateRound /\ last_event.reply = None
    /\ fixate_calls # <<>>
    /\ buffers_negotiated

(* C20: no negotiation or buffer event is fatal: whatever the proposal and
   whatever fixate_format and add_buffer return, the param_changed and
   add_buffer listener callbacks return without panicking. *)
C20_NoListenerPanics == ~listener_panic

\* ---------------------------------------------------------------- claims C21..C30

(* C21: when the backend's add_buffer returns a BufferInfo whose number of
   planes differs from the number of data blocks of the transport buffer, the
   listener does not panic (capture continues), every data block of the
   buffer is marked invalid (fd -1, type Invalid) and the user handle stays
   unset. *)
C21_MismatchMarksInvalid ==
    (/\ pool_event.kind = "add_buffer"
     /\ pool_event.info # None
     /\ pool_event.info[1].planes # n_datas)
    => /\ ~pool_panic
       /\ AddedBuffer.user_data = None
       /\ \A i \in 1..n_datas : AddedBuffer.datas[i] = InvalidData

(* C22: Client::new returns an error whenever the loop thread has failed to
   create the main loop or the context or to connect, and only then; it
   returns a Client only after the loop thread has connected and attached
   its message receiver; and a call that waits for the loop thread always
   returns. *)
C22_NewReturns ==
    /\ [](\A k \in Clients :
            /\ new_pc[k] = "Ok" => (pw_thread[k].core /\ pw_thread[k].attached)
            /\ new_pc[k] = "Err" => (pw_thread[k].pc = "failed"
                                     /\ pw_thread[k].err \in {"mainloop", "context", "connect"}))
    /\ \A k \in Clients : (pw_thread[k].pc = "failed") ~> (new_pc[k] = "Err")
    /\ \A k \in Clients : (new_pc[k] = "recv") ~> (new_pc[k] \in {"Ok", "Err"})

\* One construction has returned a Client, another has returned the error
\* of a failed connect.
C22_Witness ==
    \E k, j \in Clients :
        /\ new_pc[k] = "Ok" /\ pw_thread[k].pc = "running"
        /\ new_pc[j] = "Err" /\ pw_thread[j].err = "connect"

(* C23: in every reachable state the user handle of a transport buffer is
   set (pw_buffer.user_data is not null) if and only if the buffer is in the
   pool: added and not removed. *)
C23_HandleSetIffInPool ==
    \A b \in Slots : (user_data[b] # "null") <=> (b <= n_buffers)

\* A step of the create_stream handler.
CreateStep ==
    cbatch # <<>> /\ Head(cbatch).kind = "create_stream" /\ cbatch' = Tail(cbatch)

(* C24: the stream-id counter never decreases; every create_stream handled
   advances it by one, whether or not the stream can be constructed; a
   stream that is registered gets the counter's value before the step, which
   no stream has had before; and every key of the stream registry is
   strictly less than the counter. *)
C24_IdsFresh ==
    /\ [](\A id \in stream_map : id < stream_next_id)
    /\ [][stream_next_id' >= stream_next_id]_vars
    /\ [][CreateStep =>
            /\ stream_next_id' = stream_next_id + 1
            /\ tres'[Head(cbatch).from] \in {"Err", "Stream"}
            /\ tres'[Head(cbatch).from] = "Stream" =>
                    /\ sstate[stream_next_id] = "none"
                    /\ stream_next_id \notin stream_map
                    /\ stream_map' = stream_map \cup {stream_next_id}]_vars
    /\ [][\A id \in StreamIds :
            (sstate[id] = "none" /\ sstate'[id] # "none") => (CreateStep /\ id = stream_next_id)]_vars

\* The first create_stream failed and the second one succeeded: the stream
\* is registered under id 1 and id 0 was never given to a stream.
C24_Witness ==
    /\ stream_next_id = 2
    /\ stream_map = {1}
    /\ sstate[0] = "none" /\ sstate[1] = "Connecting"

\* The stream is disconnected, its on_terminate callback has run and its
\* registry entry is gone.
Terminated(id) ==
    sstate[id] = "Unconnected" /\ term_calls[id] = 1 /\ id \notin stream_map

(* C25: once the Stream handle of a stream has been dropped, on a loop that
   keeps running (no termination of the session has been requested and the
   loop thread has not crashed) the stream is eventually disconnected, its
   on_terminate callback has run and its entry is removed from the stream
   registry. *)
C25_DropTerminates ==
    \A id \in StreamIds :
        (id \notin handles /\ sstate[id] # "none")
            ~> (Terminated(id) \/ c_terms > 0 \/ panicked)

\* The only call ever made on a stream was the drop of its handle while the
\* stream was live; the stream is terminated and the session still runs.
C25_Witness ==
    \E id \in StreamIds, c \in Callers :
        /\ treq[c] = [kind |-> "terminate", sid |-> id, after |-> "live"]
        /\ \A d \in Callers \ {c} : treq[d].sid # id
        /\ id \notin handles
        /\ Terminated(id)
        /\ tpc[c] = "idle" /\ tres[c] = "Ok"
        /\ c_terms = 0 /\ loop_state = "running" /\ ~panicked

(* C26: the u32 conversion of every Format variant is the variant's
   position in the declaration (counted from 0), converting that u32 back
   yields the same variant, and every u32 that is not the value of a variant
   converts to UNKNOWN. *)
C26_FormatRoundTrip ==
    /\ fv_format # <<>> =>
            IF fv_value < Len(FormatVariants)
            THEN fv_format[1] = FormatVariants[fv_value + 1]
            ELSE fv_format[1] = "UNKNOWN"
    /\ fv_u32 # <<>> =>
            /\ FormatVariants[fv_u32[1] + 1] = fv_format[1]
            /\ \A i \in 1..Len(FormatVariants) : FormatVariants[i] = fv_format[1] => i = fv_u32[1] + 1
            /\ from_u32(fv_u32[1]) = fv_format[1]
            /\ fv_value < Len(FormatVariants) => fv_u32[1] = fv_value

\* The value of the last variant (87) has been converted to BGRA_102LE and back.
C26_Witness ==
    /\ fv_value = Len(FormatVariants) - 1
    /\ fv_format = <<"BGRA_102LE">>
    /\ fv_u32 = <<fv_value>>

(* C27: handles are handed to processing in the order they were queued:
   an accepted handle goes behind all the handles already in the hand-off
   queue, the process callback only ever takes the oldest one and invokes
   process_buffer for no other, and the only other change of the queue is
   the pause drain, which processes nothing. *)
C27_FifoProcessing ==
    [][chan' # chan =>
        \/ /\ cpc = "queue_wait"
           /\ chan' = Append(chan, cbuf)
        \/ /\ chan # <<>> /\ state = "Streaming" /\ state' = state
           /\ chan' = Tail(chan)
           /\ process_once(chan, loc).invoked \in {<<>>, <<Head(chan)>>}
           /\ \A b \in Slots : b # Head(chan) => loc'[b] = loc[b]
        \/ /\ state # "Paused" /\ state' = "Paused"
           /\ chan' = <<>>
           /\ loc' = loc]_vars

\* Two handles of live buffers are queued, a third one is being queued
\* behind them, and the process callback may run.
C27_Witness ==
    /\ state = "Streaming" /\ loop_pc = "idle" /\ driving
    /\ Len(chan) = 2 /\ chan[1] # chan[2]
    /\ user_data[chan[1]] = "set" /\ user_data[chan[2]] = "set"
    /\ cpc = "queue_wait" /\ cbuf # 0 /\ cbuf # chan[1] /\ cbuf # chan[2]

(* C28: every handle of a pool buffer that the pause drain discards is
   back in the transport's free pool afterwards (it can be dequeued again),
   and the drain removes no buffer and calls no remove_buffer. *)
C28_DrainReturnsToPool ==
    [][(state # "Paused" /\ state' = "Paused") =>
        /\ \A i \in 1..Len(chan) : chan[i] <= n_buffers => loc'[chan[i]] = "pool"
        /\ user_data' = user_data /\ n_buffers' = n_buffers]_vars

\* A remove_buffer event: the oldest buffer leaves the pool.
RemoveStep == pw_buffers # <<>> /\ pw_buffers' = Tail(pw_buffers)

(* C29: when the transport removes a buffer for which add_buffer returned a
   BufferInfo, remove_buffer is invoked once, with the user handle of that
   BufferInfo, which the backend still has out; a buffer for which
   add_buffer returned None has every data block marked invalid and no user
   handle while it is in the pool, and its removal invokes no remove_buffer.
   The handles the backend has out are exactly those of the pool's buffers,
   so none is given back twice or left over. *)
C29_RemoveOncePerAdded ==
    /\ [][RemoveStep =>
            LET b == Head(pw_buffers)
            IN IF b.info # None
               THEN /\ pool_event'.removed = <<b.info[1].user_handle>>
                    /\ b.info[1].user_handle \in backend
                    /\ b.info[1].user_handle \notin backend'
               ELSE /\ pool_event'.removed = <<>>
                    /\ backend' = backend]_vars
    /\ [](~pool_panic =>
            /\ \A i \in 1..Len(pw_buffers) :
                    pw_buffers[i].info = None =>
                        /\ pw_buffers[i].user_data = None
                        /\ \A j \in 1..n_datas : pw_buffers[i].datas[j] = InvalidData
            /\ backend = {pw_buffers[i].info[1].user_handle :
                            i \in {j \in 1..Len(pw_buffers) : pw_buffers[j].info # None}})

\* A buffer added with a BufferInfo has just been removed and remove_buffer
\* was called with its handle; a buffer for which add_buffer returned None
\* and one with a handle are still in the pool.
C29_Witness ==
    /\ pool_event.kind = "remove_buffer" /\ pool_event.removed # <<>>
    /\ pool_event.removed[1] \notin backend
    /\ \E i, j \in 1..Len(pw_buffers) :
            pw_buffers[i].info = None /\ pw_buffers[j].info # None

(* C30: the buffer parameter published at the end of a negotiation has a
   buffer-count range with minimum 1, maximum max_buffers and a default
   inside that range; its block count is max(num_planes, 1); and its data
   type is DmaBuf exactly when the FixateFormat has a modifier, MemFd
   otherwise. *)
C30_BufferParams ==
    FinalRound =>
        LET p == published[1]
            f == last_event.reply[1]
        IN /\ p.obj = "ParamBuffers"
           /\ p.min = 1 /\ p.max = max_buffers
           /\ p.min <= p.default /\ p.default <= p.max
           /\ p.blocks = (IF f.num_planes > 1 THEN f.num_planes ELSE 1)
           /\ p.dataType = (IF f.modifier # None THEN "DmaBuf" ELSE "MemFd")

\* ---------------------------------------------------------------- claims C31..C39

\* The last step handed a buffer back to the transport.
StampStep == frames' # frames

\* The cursor counter after the first i buffers: 1 and one more for every
\* cursor info with serial = true.
cursor_id_at(i) ==
    1 + Cardinality({j \in 1..i : frames[j].info # None /\ frames[j].info[1].serial})

(* C31: the cursor block is declared with room for a bitmap of
   64*64*4 = 16384 bytes behind the cursor and bitmap headers, and
   fill_cursor_meta never copies more than 16384 pixel bytes into it: a
   bitmap with more bytes is discarded (bitmap_offset 0, nothing copied)
   while id, position and hotspot are written. *)
C31_CursorBitmapBounded ==
    /\ MAX_CURSOR_BITMAP_SIZE = 16384
    /\ build_stream_params(max_buffers, 1, FALSE)[3].size
           = size_of_spa_meta_cursor + size_of_spa_meta_bitmap + 16384
    /\ \A i \in 1..Len(frames) :
          frames[i].cursor # None =>
            LET c == frames[i].cursor[1]
                info == frames[i].info
            IN /\ c.pixels <= 16384
               /\ size_of_spa_meta_cursor + size_of_spa_meta_bitmap + c.pixels
                     <= build_stream_params(max_buffers, 1, FALSE)[3].size
               /\ (info # None /\ info[1].bitmap # None /\ info[1].bitmap[1].len > 16384) =>
                     /\ c.pixels = 0 /\ c.bitmap_offset = Some(0)
                     /\ c.id = Some(cursor_id_at(i))
                     /\ c.position = Some(info[1].position)
                     /\ c.hotspot = Some(info[1].hotspot)
               /\ (info # None /\ info[1].bitmap # None /\ info[1].bitmap[1].len <= 16384) =>
                     /\ c.pixels = info[1].bitmap[1].len
                     /\ c.bitmap_offset = Some(size_of_spa_meta_cursor)

\* A frame whose cursor bitmap was too large has been handed back.
C31_Witness ==
    \E i \in 1..Len(frames) :
        /\ frames[i].cursor # None /\ frames[i].info # None
        /\ frames[i].info[1].bitmap # None
        /\ frames[i].info[1].bitmap[1].len > MAX_CURSOR_BITMAP_SIZE
        /\ frames[i].cursor[1].id # Some(0)

(* C35: the header sequence numbers stamped on the processed buffers of a
   stream are 0, 1, 2, ... in processing order: the counter starts at 0,
   the i-th buffer handed back to the transport is stamped i - 1 and
   advances the counter by exactly 1, and a process call with nothing to
   receive or with a buffer without user handle leaves the counter
   unchanged. *)
C35_HeaderSeqCounts ==
    /\ seq = 0
    /\ [](/\ seq = Len(frames)
          /\ \A i \in 1..Len(frames) :
                frames[i].header # None => frames[i].header = Some(i - 1))
    /\ [][/\ StampStep => seq' = seq + 1 /\ Len(frames') = Len(frames) + 1
          /\ last_process' \in {"unscheduled", "broken"} => seq' = seq /\ frames' = frames]_vars

\* Two buffers were stamped 0 and 1, and a call without user handle followed.
C35_Witness ==
    /\ Len(frames) = 2
    /\ frames[1].header = Some(0) /\ frames[2].header = Some(1)
    /\ last_process = "broken"

(* C36: the cursor id written to a processed buffer's cursor metadata is 0
   exactly when the backend supplied no cursor info for that buffer;
   otherwise it is the stream's cursor counter, which starts at 1, never
   decreases and increases by exactly 1 each time the backend supplies
   cursor info with serial = true. *)
C36_CursorIdCounts ==
    /\ cursor_id = 1
    /\ [](/\ cursor_id = cursor_id_at(Len(frames))
          /\ \A i \in 1..Len(frames) :
                frames[i].cursor # None =>
                    /\ (frames[i].cursor[1].id = Some(0)) <=> (frames[i].info = None)
                    /\ frames[i].info # None =>
                          frames[i].cursor[1].id = Some(cursor_id_at(i)))
    /\ [][/\ cursor_id' >= cursor_id
          /\ cursor_id' = IF /\ StampStep
                             /\ frames'[Len(frames')].info # None
                             /\ frames'[Len(frames')].info[1].serial
                          THEN cursor_id + 1 ELSE cursor_id]_vars

\* A buffer without cursor info (id 0), then a cursor change (id 2), then
\* the same cursor again (id 2).
C36_Witness ==
    /\ Len(frames) = 3
    /\ frames[1].cursor # None /\ frames[1].info = None /\ frames[1].cursor[1].id = Some(0)
    /\ frames[2].info # None /\ frames[2].info[1].serial /\ frames[2].cursor[1].id = Some(2)
    /\ frames[3].info # None /\ ~frames[3].info[1].serial /\ frames[3].cursor[1].id = Some(2)

\* The last step was the handler of the session's terminate message.
ClientTerminateStep ==
    /\ cbatch # <<>> /\ Head(cbatch).kind = "terminate"
    /\ cbatch' = Tail(cbatch)

\* The stream was created and is out of the registry with its on_terminate
\* still in place: it was removed by the session's terminate.
RemovedBySession(id) ==
    /\ sstate[id] # "none" /\ id \notin stream_map /\ on_terminate[id]

(* C32: when the session's terminate message has been handled the stream
   registry is empty and the loop has been asked to quit; the handler runs
   no stream's on_terminate, a stream removed this way never has its
   on_terminate run afterwards, and on_terminate runs at most once per
   stream. *)
C32_SessionTerminateClears ==
    /\ [][ClientTerminateStep =>
            /\ stream_map' = {} /\ quit'
            /\ term_calls' = term_calls /\ on_terminate' = on_terminate]_vars
    /\ [](\A id \in StreamIds : term_calls[id] <= 1)
    /\ \A id \in StreamIds : [](RemovedBySession(id) => [](term_calls[id] = 0))

\* The loop has exited after a session terminate that removed a stream whose
\* terminate had been requested; one stream's on_terminate had run before.
C32_Witness ==
    /\ loop_state = "exited" /\ stream_map = {}
    /\ \E id \in term_req : RemovedBySession(id) /\ term_calls[id] = 0
    /\ \E id \in StreamIds : term_calls[id] = 1

\* The last step ran the on_terminate callback of stream id.
OnTerminateStep(id) == term_calls'[id] > term_calls[id]

(* C33: whenever a stream's on_terminate callback runs, the session state is
   alive (the loop has not exited) and the stream's id is in the registry,
   so the callback removes the entry and its expect("stream_impl already
   removed") does not fail, under every interleaving of create_stream,
   stream terminate, Stream drop and session terminate. *)
C33_OnTerminateFindsEntry ==
    [][\A id \in StreamIds :
          OnTerminateStep(id) =>
            /\ loop_state = "running"
            /\ id \in stream_map /\ id \notin stream_map'
            /\ ~panicked']_vars

\* A dropped stream's on_terminate has run and removed its entry while a
\* session terminate was under way, and the loop thread is intact.
C33_Witness ==
    \E id \in StreamIds :
        /\ term_calls[id] = 1 /\ id \notin stream_map /\ id \notin handles
        /\ c_terms > 0 /\ ~panicked

(* C34: no handler and no listener callback calls borrow_mut() on the
   stream's or the session's RefCell while another borrow of it is active,
   nor borrow() while a mutable borrow is active, also when state_changed
   and param_changed run from inside connect, disconnect, update_params or
   terminate: no borrow panics. *)
C34_NoBorrowPanic ==
    /\ ~borrow_panic
    /\ \A c \in Cells : borrow_state[c].mut => borrow_state[c].shared = 0

\* state_changed(Paused) runs inside connect() of StreamImpl::new, called by
\* create_stream: two shared borrows of the stream's RefCell are active.
C34_Witness ==
    /\ Len(call_stack) = 4
    /\ call_stack[2].fn = "create_stream" /\ call_stack[3].fn = "new"
    /\ call_stack[4].fn = "state_changed_paused"
    /\ borrow_state["stream"].shared = 2
    /\ borrow_state["session"].shared = 1 /\ borrow_state["client"].mut

\* The textures in the free queue.
FreeSet == {free_textures[i] : i \in 1..Len(free_textures)}

(* C37: in the GL backend, after any sequence of add-buffer and
   remove-buffer callbacks every export texture is in exactly one of
   free_textures and mapped_textures, none lost and none duplicated;
   add_buffer fails without a state change when free_textures is empty, and
   remove_buffer of a texture that is not mapped fails without a state
   change. *)
C37_TexturesPartitioned ==
    /\ [](/\ FreeSet \cup mapped_textures = Textures
          /\ FreeSet \cap mapped_textures = {}
          /\ Cardinality(FreeSet) = Len(free_textures))
    /\ [][/\ (gl_event'.kind = "add_buffer" /\ free_textures = <<>>) =>
                /\ ~gl_event'.ok
                /\ UNCHANGED <<free_textures, mapped_textures>>
          /\ (gl_event'.kind = "remove_buffer" /\ gl_event'.texture \notin mapped_textures) =>
                /\ ~gl_event'.ok
                /\ UNCHANGED <<free_textures, mapped_textures>>]_tvars

\* Every texture is mapped and a further add_buffer has failed; before, a
\* texture had been unmapped and mapped again.
C37_Witness ==
    /\ mapped_textures = Textures /\ free_textures = <<>>
    /\ gl_event.kind = "add_buffer" /\ ~gl_event.ok /\ gl_event.found

\* The entries of the Vulkan format table.
TableEntries == {VK_FORMAT_INFO_TABLE[i] : i \in 1..Len(VK_FORMAT_INFO_TABLE)}

(* C38: the Vulkan format table is a consistent two-way mapping: for every
   entry, vk_format_get_transfer(entry.vk_format) is entry.transfer,
   vk_format_get_info(entry.vk_format) has the entry's format and transfer,
   and client_format_get_info(entry.format, entry.transfer) has
   entry.vk_format; a vk_format that is not in the table maps to
   Format UNKNOWN and a (format, transfer) pair that is not in it maps to
   vk::Format UNDEFINED. *)
C38_TableTwoWay ==
    vk_result # <<>> =>
        LET q == vk_query
            r == vk_result[1]
        IN /\ \A e \in TableEntries :
                /\ (q.fn = "vk_format_get_transfer" /\ q.vk_format = e.vk_format) =>
                        r.transfer = e.transfer
                /\ (q.fn = "vk_format_get_info" /\ q.vk_format = e.vk_format) =>
                        r.format = e.format /\ r.transfer = e.transfer
                /\ (/\ q.fn = "client_format_get_info"
                    /\ q.format = e.format /\ q.transfer = e.transfer) =>
                        r.vk_format = e.vk_format
           /\ (/\ q.fn = "vk_format_get_info"
               /\ \A e \in TableEntries : e.vk_format # q.vk_format) =>
                    r.format = "UNKNOWN"
           /\ (/\ q.fn = "client_format_get_info"
               /\ \A e \in TableEntries : e.format # q.format \/ e.transfer # q.transfer) =>
                    r.vk_format = <<"UNDEFINED">>

(* C39: get_app_name always returns a non-empty name: the executable's
   base name when it can be read and is neither "wine-preloader" nor
   "wine64-preloader", otherwise the process's command name, otherwise
   "unknown". *)
C39_AppNameNonEmpty ==
    app_pc = "done" =>
        LET base == IF proc_exe = None THEN None ELSE file_name(proc_exe[1])
            wine == {<<"wine-preloader">>, <<"wine64-preloader">>}
        IN /\ app_name # <<>>
           /\ app_name = IF base # None /\ base[1] \notin wine THEN base[1]
                         ELSE IF proc_comm # None
                              THEN SubSeq(proc_comm[1], 1, Len(proc_comm[1]) - 1)
                              ELSE <<"unknown">>

====
